---- MODULE Spec2Model ----
(***************************************************************************)
(* Model of the oniric-backend API gateway: the dual-issuer authentication *)
(* middleware (auth / optionalAuth), the global error handler, and the     *)
(* route handlers of subscriptions, dreams, profile and auth.              *)
(* Each request is an Express request object (headers, params,             *)
(* body, user, userId), the position of its middleware chain (pc) and its  *)
(* response.  Every `await` of the source is a suspension point: an action *)
(* runs the synchronous code up to the next await.                         *)
(***************************************************************************)
EXTENDS Integers, Sequences, FiniteSets, TLC

VARIABLES env, profiles, subscriptions, dreams, accounts, reqs, served

vars == <<env, profiles, subscriptions, dreams, accounts, reqs, served>>

(***************************************************************************)
(* Bounds                                                                  *)
(***************************************************************************)
\* requests admitted in one run
MaxServed == 3

ReqIds == {1, 2}
Users == {"u1", "u2"}
SubIds == {"s1", "s2"}
DreamIds == {"d1"}
Emails == {"e1", "e2"}

(***************************************************************************)
(* JavaScript values.  "undef" stands for undefined / an absent property,  *)
(* "" is the empty string; both are falsy.                                 *)
(***************************************************************************)
Undef == "undef"
Truthy(v) == v \notin {Undef, ""}

\* process.env values: "" is an unset (or empty) variable
SecretVals == {"", "k1", "k2"}
\* the key a token's signature was made with; "bad" matches no secret
TokenKeys == {"k1", "k2", "bad"}
ClaimVals == {Undef, ""} \cup Users

(***************************************************************************)
(* Datastore rows.  NoRow is the null `data` of a store response.          *)
(***************************************************************************)
NoRow == [id |-> Undef, role |-> Undef, tier |-> Undef, is_premium |-> FALSE,
          full_name |-> Undef, created_at |-> Undef, updated_at |-> Undef]
Profile(u, role, tier) ==
    [id |-> u, role |-> role, tier |-> tier, is_premium |-> tier # "free",
     full_name |-> "n0", created_at |-> "t0", updated_at |-> "t0"]

\* The accounts of the identity provider (supabase.auth) give the user id of
\* each registered email, Undef where the email has no account.
\* the email whose account a stored profile belongs to
EmailOf(u) == IF u = "u1" THEN "e1" ELSE "e2"
\* the accounts behind the profiles of a store
AccountsOf(p) ==
    [e \in Emails |->
        IF \E u \in Users : EmailOf(u) = e /\ p[u] # NoRow
        THEN CHOOSE u \in Users : EmailOf(u) = e /\ p[u] # NoRow
        ELSE Undef]

NoSub == [id |-> Undef, user_id |-> Undef, tier |-> Undef, status |-> Undef]
NoDream == [id |-> Undef, user_id |-> Undef, title |-> Undef,
            image_url |-> Undef, video_task_id |-> Undef]

\* role?.includes('admin'): substring test on the role string
RoleIncludesAdmin(role) == role \in {"admin", "superadmin"}

(***************************************************************************)
(* Bearer tokens (jsonwebtoken).  A token is its payload, the key that     *)
(* signed it and whether its exp claim has passed.                         *)
(*   kind "garbage": not a JWT (jwt.decode returns null)                   *)
(*   kind "string" : a JWT whose payload is not a JSON object              *)
(*   kind "object" : a JWT with a JSON object payload {sub?, id?}          *)
(***************************************************************************)
Token(kind, sub, id, key, expired) ==
    [kind |-> kind, sub |-> sub, id |-> id, key |-> key, expired |-> expired]

Garbage == Token("garbage", Undef, Undef, "bad", FALSE)

\* jwt.sign(payload, secret, {expiresIn})
JwtSign(sub, id, secret) == Token("object", sub, id, secret, FALSE)

\* the same token with its signature altered: it verifies under no secret
AlterSignature(t) == [t EXCEPT !.key = "bad"]

\* jwt.decode(token): the payload, no signature check; null when undecodable
JwtDecode(t) ==
    IF t.kind = "object"
    THEN [type |-> "object", sub |-> t.sub, id |-> t.id]
    ELSE IF t.kind = "string"
    THEN [type |-> "string", sub |-> Undef, id |-> Undef]
    ELSE [type |-> "null", sub |-> Undef, id |-> Undef]

\* jwt.verify(token, secret): TRUE when it returns, FALSE when it throws
JwtVerify(t, secret) ==
    /\ t.kind \in {"object", "string"}
    /\ t.key = secret
    /\ ~t.expired

(***************************************************************************)
(* Authorization header, as the list of its parts between single spaces    *)
(* (header.split(' ')); <<>> is a missing header.  A part is a word.       *)
(***************************************************************************)
Word(w) == Token(w, Undef, Undef, "bad", FALSE)
Bearer == Word("Bearer")
Basic == Word("Basic")
EmptyPart == Word("empty")

\* faulty variant, for comparison: any scheme followed by a space is taken for a bearer token
StartsWithBearer_AnyScheme(h) == Len(h) >= 2

\* authHeader && authHeader.startsWith('Bearer ')
StartsWithBearer(h) == Len(h) >= 2 /\ h[1] = Bearer

\* authHeader.split(' ')[1]
SplitToken(h) == h[2]

\* !token
TokenFalsy(t) == t = EmptyPart

(***************************************************************************)
(* Errors and responses                                                    *)
(***************************************************************************)
\* new ApiError(statusCode, message)
ApiError(code, msg) == [kind |-> "ApiError", statusCode |-> code, message |-> msg]
\* new Error(message): carries no statusCode (0 stands for the absent field)
PlainError(msg) == [kind |-> "Error", statusCode |-> 0, message |-> msg]
NoError == [kind |-> "none", statusCode |-> 0, message |-> ""]

NoRes == [status |-> 0, message |-> "", success |-> FALSE, stack |-> FALSE]

(***************************************************************************)
(* Token verification inside auth (the synchronous code between the token  *)
(* extraction and the user-store lookup).  The result is either a thrown   *)
(* error or the user id to look up, with the jwt.verify calls it made.     *)
(***************************************************************************)
VerifyCall(name, ok) == [secret |-> name, ok |-> ok]
Thrown(e, calls) == [thrown |-> TRUE, err |-> e, userId |-> Undef, verifies |-> calls]
Subject(id, calls) == [thrown |-> FALSE, err |-> NoError, userId |-> id, verifies |-> calls]

\* faulty variant, for comparison: the platform branch trusts sub without jwt.verify
AuthSubBranch_Unverified(t, d, e) == Subject(d.sub, <<>>)

\* auth, platform branch: decodedToken.sub is truthy
AuthSubBranch(t, d, e) ==
    IF ~Truthy(e.SUPABASE_JWT_SECRET)
    THEN Thrown(ApiError(500, "Supabase JWT secret not configured"), <<>>)
    ELSE IF JwtVerify(t, e.SUPABASE_JWT_SECRET)
    THEN Subject(d.sub, <<VerifyCall("SUPABASE_JWT_SECRET", TRUE)>>)
    ELSE Thrown(ApiError(401, "Invalid or expired Supabase token"),
                <<VerifyCall("SUPABASE_JWT_SECRET", FALSE)>>)

\* faulty variant, for comparison: the local branch accepts a signature made with either secret
AuthIdBranch_EitherSecret(t, d, e) ==
    IF ~Truthy(e.JWT_SECRET)
    THEN Thrown(ApiError(500, "JWT secret not configured"), <<>>)
    ELSE IF JwtVerify(t, e.JWT_SECRET) \/ JwtVerify(t, e.SUPABASE_JWT_SECRET)
    THEN Subject(d.id, <<VerifyCall("JWT_SECRET", TRUE)>>)
    ELSE Thrown(PlainError("invalid signature"), <<VerifyCall("JWT_SECRET", FALSE)>>)

\* auth, local branch: decodedToken.id is truthy (and sub is not)
AuthIdBranch(t, d, e) ==
    IF ~Truthy(e.JWT_SECRET)
    THEN Thrown(ApiError(500, "JWT secret not configured"), <<>>)
    ELSE IF JwtVerify(t, e.JWT_SECRET)
    THEN Subject(d.id, <<VerifyCall("JWT_SECRET", TRUE)>>)
    ELSE Thrown(PlainError("invalid signature"), <<VerifyCall("JWT_SECRET", FALSE)>>)

\* faulty variant, for comparison: the id claim is looked at before the sub claim
AuthVerify_IdFirst(t, e) ==
    LET d == JwtDecode(t) IN
    IF d.type = "null" THEN Thrown(PlainError("Invalid token format"), <<>>)
    ELSE IF d.type = "object"
    THEN IF Truthy(d.id) THEN AuthIdBranch(t, d, e)
         ELSE IF Truthy(d.sub) THEN AuthSubBranch(t, d, e)
         ELSE Thrown(PlainError("Invalid token payload"), <<>>)
    ELSE Thrown(PlainError("Invalid token format"), <<>>)

\* auth: jwt.decode and the branch on the payload's shape
AuthVerify(t, e) ==
    LET d == JwtDecode(t) IN
    IF d.type = "null" THEN Thrown(PlainError("Invalid token format"), <<>>)
    ELSE IF d.type = "object"
    THEN IF Truthy(d.sub) THEN AuthSubBranch(t, d, e)
         ELSE IF Truthy(d.id) THEN AuthIdBranch(t, d, e)
         ELSE Thrown(PlainError("Invalid token payload"), <<>>)
    ELSE Thrown(PlainError("Invalid token format"), <<>>)

\* faulty variant, for comparison: the inner catch rethrows what it caught
AuthInnerCatch_Rethrow(e) == e

\* auth: the inner catch replaces whatever was thrown
AuthInnerCatch(e) == ApiError(401, "Invalid or expired token")

\* optionalAuth, platform branch: the sub claim is taken without jwt.verify
OptSubBranch(t, d, e) == Subject(d.sub, <<>>)

\* optionalAuth, local branch
OptIdBranch(t, d, e) ==
    IF ~Truthy(e.JWT_SECRET)
    THEN Thrown(NoError, <<>>)
    ELSE IF JwtVerify(t, e.JWT_SECRET)
    THEN Subject(d.id, <<VerifyCall("JWT_SECRET", TRUE)>>)
    ELSE Thrown(NoError, <<VerifyCall("JWT_SECRET", FALSE)>>)

\* optionalAuth: every failure is `return next()` (thrown with no error)
OptVerify(t, e) ==
    LET d == JwtDecode(t) IN
    IF d.type = "null" THEN Thrown(NoError, <<>>)
    ELSE IF d.type = "object"
    THEN IF Truthy(d.sub) THEN OptSubBranch(t, d, e)
         ELSE IF Truthy(d.id) THEN OptIdBranch(t, d, e)
         ELSE Thrown(NoError, <<>>)
    ELSE Thrown(NoError, <<>>)

(***************************************************************************)
(* The user store.  A point lookup `.eq('id', key).single()` answers       *)
(* {data, error}: the row, no row (reported as error PGRST116 or as null   *)
(* data), or a transport error.                                            *)
(***************************************************************************)
StoreResp(data, error) == [data |-> data, error |-> error]
\* no lookup has answered yet
NoResp == StoreResp(NoRow, "no response")

SelectSingle(table, none, key) ==
    (IF key \in DOMAIN table /\ table[key] # none
     THEN {StoreResp(table[key], "")}
     ELSE {StoreResp(none, "PGRST116"), StoreResp(none, "")})
    \cup {StoreResp(none, "transport")}

\* getUserById: throws on a store error, else returns data
GetUserById(resp) ==
    IF resp.error # ""
    THEN [thrown |-> TRUE, user |-> NoRow]
    ELSE [thrown |-> FALSE, user |-> resp.data]

(***************************************************************************)
(* Requests                                                                *)
(***************************************************************************)
NoBody == [user_id |-> Undef, tier |-> Undef, status |-> Undef,
           title |-> Undef, imageUrl |-> Undef, price |-> "1",
           userId |-> Undef, id |-> Undef, is_premium |-> Undef, role |-> Undef,
           full_name |-> Undef,
           created_at |-> Undef, updated_at |-> Undef,
           email |-> Undef, password |-> Undef]

IdleReq ==
    [pc |-> "idle", route |-> "none", authorization |-> <<>>,
     paramId |-> Undef, body |-> NoBody,
     user |-> NoRow, userId |-> Undef,
     key |-> Undef, err |-> NoError, res |-> NoRes,
     nexts |-> <<>>, decodes |-> 0, verifies |-> <<>>, lookups |-> <<>>,
     resp |-> NoResp,
     subscription |-> NoSub, taskId |-> Undef, guard |-> "none", writes |-> {},
     queryUserId |-> Undef, data |-> {}, token |-> Garbage, account |-> Undef,
     seq |-> 0]

\* next(err) from a middleware or handler: the global errorHandler runs next
Fail(q, e) == [q EXCEPT !.pc = "error", !.err = e]

\* auth's outer catch: next(error)
AuthReject(q, e) == [Fail(q, e) EXCEPT !.nexts = Append(q.nexts, e)]

\* next(): the route handler runs next
AuthProceed(q) == [q EXCEPT !.pc = "handler", !.nexts = Append(q.nexts, NoError)]

\* auth, lines 19-77: header, token, verification; suspends in getUserById
AuthSync(q, e) ==
    LET h == q.authorization IN
    IF ~StartsWithBearer(h)
    THEN AuthReject(q, ApiError(401, "Authorization token required"))
    ELSE IF TokenFalsy(SplitToken(h))
    THEN AuthReject(q, ApiError(401, "Authorization token required"))
    ELSE LET v == AuthVerify(SplitToken(h), e)
             q1 == [q EXCEPT !.decodes = q.decodes + 1,
                             !.verifies = q.verifies \o v.verifies]
         IN IF v.thrown
            THEN AuthReject(q1, AuthInnerCatch(v.err))
            ELSE [q1 EXCEPT !.pc = "auth_lookup", !.key = v.userId,
                            !.lookups = Append(q1.lookups, v.userId)]




\* faulty variant, for comparison: a failed lookup is tried again
AuthAfterLookup_Retry(q0, resp) ==
    LET g == GetUserById(resp)
        q == [q0 EXCEPT !.resp = resp]
    IN
    IF g.thrown /\ Len(q0.lookups) < 2
    THEN [q EXCEPT !.lookups = Append(q0.lookups, q0.key)]
    ELSE IF g.thrown
    THEN AuthReject(q, AuthInnerCatch(PlainError("Error fetching user")))
    ELSE IF g.user = NoRow
    THEN AuthReject(q, AuthInnerCatch(ApiError(401, "User not found")))
    ELSE AuthProceed([q EXCEPT !.user = g.user, !.userId = g.user.id])

\* faulty variant, for comparison: a token is honoured for the first request only
AuthAfterLookup_Once(q0, resp) ==
    LET g == GetUserById(resp)
        q == [q0 EXCEPT !.resp = resp]
    IN
    IF g.thrown THEN AuthReject(q, AuthInnerCatch(PlainError("Error fetching user")))
    ELSE IF g.user = NoRow \/ served > 1
    THEN AuthReject(q, AuthInnerCatch(ApiError(401, "User not found")))
    ELSE AuthProceed([q EXCEPT !.user = g.user, !.userId = g.user.id])

\* faulty variant, for comparison: a verified subject without a record goes on anonymously
AuthAfterLookup_Anonymous(q0, resp) ==
    LET g == GetUserById(resp)
        q == [q0 EXCEPT !.resp = resp]
    IN
    IF g.thrown THEN AuthReject(q, AuthInnerCatch(PlainError("Error fetching user")))
    ELSE IF g.user = NoRow THEN AuthProceed(q)
    ELSE AuthProceed([q EXCEPT !.user = g.user, !.userId = g.user.id])

\* auth, lines 77-91: the lookup answers
AuthAfterLookup(q0, resp) ==
    LET g == GetUserById(resp)
        q == [q0 EXCEPT !.resp = resp]
    IN
    IF g.thrown THEN AuthReject(q, AuthInnerCatch(PlainError("Error fetching user")))
    ELSE IF g.user = NoRow
    THEN AuthReject(q, AuthInnerCatch(ApiError(401, "User not found")))
    ELSE AuthProceed([q EXCEPT !.user = g.user, !.userId = g.user.id])


\* faulty variant, for comparison: req.userId is set from the token before the lookup
OptAuthSync_EagerContext(q, e) ==
    LET h == q.authorization IN
    IF ~StartsWithBearer(h) THEN AuthProceed(q)
    ELSE IF TokenFalsy(SplitToken(h)) THEN AuthProceed(q)
    ELSE LET v == OptVerify(SplitToken(h), e)
             q1 == [q EXCEPT !.decodes = q.decodes + 1,
                             !.verifies = q.verifies \o v.verifies]
         IN IF v.thrown
            THEN AuthProceed(q1)
            ELSE [q1 EXCEPT !.pc = "opt_lookup", !.key = v.userId, !.userId = v.userId,
                            !.lookups = Append(q1.lookups, v.userId)]

\* optionalAuth, lines 102-151
OptAuthSync(q, e) ==
    LET h == q.authorization IN
    IF ~StartsWithBearer(h) THEN AuthProceed(q)
    ELSE IF TokenFalsy(SplitToken(h)) THEN AuthProceed(q)
    ELSE LET v == OptVerify(SplitToken(h), e)
             q1 == [q EXCEPT !.decodes = q.decodes + 1,
                             !.verifies = q.verifies \o v.verifies]
         IN IF v.thrown
            THEN AuthProceed(q1)
            ELSE [q1 EXCEPT !.pc = "opt_lookup", !.key = v.userId,
                            !.lookups = Append(q1.lookups, v.userId)]


\* faulty variant, for comparison: the subject of the token is kept when the lookup gives no record
OptAuthAfterLookup_KeyOnly(q0, resp) ==
    LET g == GetUserById(resp)
        q == [q0 EXCEPT !.resp = resp]
    IN
    IF g.thrown \/ g.user = NoRow THEN AuthProceed([q EXCEPT !.userId = q0.key])
    ELSE AuthProceed([q EXCEPT !.user = g.user, !.userId = g.user.id])

\* optionalAuth, lines 151-163
OptAuthAfterLookup(q0, resp) ==
    LET g == GetUserById(resp)
        q == [q0 EXCEPT !.resp = resp]
    IN
    IF g.thrown THEN AuthProceed(q)
    ELSE IF g.user = NoRow THEN AuthProceed(q)
    ELSE AuthProceed([q EXCEPT !.user = g.user, !.userId = g.user.id])

\* faulty variant, for comparison: the stack is part of every error body
ErrorResponse_AlwaysStack(e) ==
    [status |-> IF e.kind = "ApiError" THEN e.statusCode ELSE 500,
     message |-> IF e.message # "" THEN e.message ELSE "Something went wrong",
     success |-> FALSE,
     stack |-> TRUE]

\* errorHandler: the status and the JSON body {success, error: {message, stack?}}
ErrorResponse(e) ==
    [status |-> IF e.kind = "ApiError" THEN e.statusCode ELSE 500,
     message |-> IF e.message # "" THEN e.message ELSE "Something went wrong",
     success |-> FALSE,
     stack |-> env.NODE_ENV = "development"]

Respond(q, status) ==
    [q EXCEPT !.pc = "done",
              !.res = [status |-> status, message |-> "", success |-> TRUE, stack |-> FALSE]]

UsesOptionalAuth(route) == route = "optional"

(***************************************************************************)
(* Actions of the middleware                                               *)
(***************************************************************************)

\* faulty variant, for comparison: the context is kept in one place shared by the requests
Set_SharedContext(r, q) ==
    reqs' = [x \in ReqIds |->
                IF x = r THEN q
                ELSE [reqs[x] EXCEPT !.user = q.user, !.userId = q.userId]]

Set(r, q) == reqs' = [reqs EXCEPT ![r] = q]
DbUnchanged == UNCHANGED <<env, profiles, subscriptions, dreams, served, accounts>>

AuthStart(r) ==
    /\ reqs[r].pc = "auth"
    /\ Set(r, AuthSync(reqs[r], env))
    /\ DbUnchanged


\* faulty variant, for comparison: the lookup also stamps the profile it read
AuthResume_Stamp(r) ==
    /\ reqs[r].pc = "auth_lookup"
    /\ \E resp \in SelectSingle(profiles, NoRow, reqs[r].key) :
          Set(r, AuthAfterLookup(reqs[r], resp))
    /\ profiles' = [u \in Users |->
                      IF u = reqs[r].key /\ profiles[u] # NoRow
                      THEN [profiles[u] EXCEPT !.tier = "seen"]
                      ELSE profiles[u]]
    /\ UNCHANGED <<env, subscriptions, dreams, served, accounts>>

AuthResume(r) ==
    /\ reqs[r].pc = "auth_lookup"
    /\ \E resp \in SelectSingle(profiles, NoRow, reqs[r].key) :
          Set(r, AuthAfterLookup(reqs[r], resp))
    /\ DbUnchanged

OptAuthStart(r) ==
    /\ reqs[r].pc = "optionalAuth"
    /\ Set(r, OptAuthSync(reqs[r], env))
    /\ DbUnchanged

OptAuthResume(r) ==
    /\ reqs[r].pc = "opt_lookup"
    /\ \E resp \in SelectSingle(profiles, NoRow, reqs[r].key) :
          Set(r, OptAuthAfterLookup(reqs[r], resp))
    /\ DbUnchanged

ErrorHandler(r) ==
    /\ reqs[r].pc = "error"
    /\ Set(r, [reqs[r] EXCEPT !.pc = "done", !.res = ErrorResponse(reqs[r].err)])
    /\ DbUnchanged

\* GET /api/auth/me, and the endpoint behind optionalAuth: answer 200
PlainHandler(r) ==
    /\ reqs[r].pc = "handler"
    /\ reqs[r].route \in {"me", "optional"}
    /\ Set(r, Respond(reqs[r], 200))
    /\ DbUnchanged

\* the response is sent: the request object is discarded
Finish(r) ==
    /\ reqs[r].pc = "done"
    /\ Set(r, IdleReq)
    /\ DbUnchanged

(***************************************************************************)
(* Route handlers of /api/subscriptions.  `guard` records the outcome of   *)
(* the ownership check of the request and `writes` the inserts, updates    *)
(* and deletes it has issued, each with the owner of the row it targets.   *)
(***************************************************************************)
Write(table, op, owner) == [table |-> table, op |-> op, owner |-> owner]
Issue(q, w) == [q EXCEPT !.writes = q.writes \cup {w}]

\* faulty variant, for comparison: the negation of the role test is lost
GuardDenies_RoleInverted(owner, q) ==
    owner # q.userId /\ RoleIncludesAdmin(q.user.role)

\* owner !== req.userId && !req.user?.role?.includes('admin')  =>  403
GuardDenies(owner, q) == owner # q.userId /\ ~RoleIncludesAdmin(q.user.role)

\* express-validator: isNumeric on price
IsNumeric(v) == v \in {"0", "1"}

\* validateSubscriptionCreate (start_date is carried with price)
ValidSubscriptionCreate(b) ==
    Truthy(b.user_id) /\ Truthy(b.tier) /\ Truthy(b.status) /\ IsNumeric(b.price)

\* validateSubscriptionUpdate: price is optional
ValidSubscriptionUpdate(b) == b.price = Undef \/ IsNumeric(b.price)

\* res.status(400).json({errors})
Respond400(q) ==
    [q EXCEPT !.pc = "done",
              !.res = [status |-> 400, message |-> "validation", success |-> FALSE,
                       stack |-> FALSE]]

\* faulty variant, for comparison: the tier is written without is_premium
ProfileTierUpdate_TierOnly(table, u, tier) ==
    IF u \in DOMAIN table /\ table[u] # NoRow
    THEN [table EXCEPT ![u].tier = tier]
    ELSE table

\* profiles.update({tier, is_premium: tier !== 'free'}).eq('id', u)
ProfileTierUpdate(table, u, tier) ==
    IF u \in DOMAIN table /\ table[u] # NoRow
    THEN [table EXCEPT ![u].tier = tier, ![u].is_premium = (tier # "free")]
    ELSE table

\* POST /api/subscriptions, lines 69-85: validation, guard, the insert is sent
SubCreateSync(q) ==
    IF ~ValidSubscriptionCreate(q.body) THEN Respond400(q)
    ELSE IF GuardDenies(q.body.user_id, q)
    THEN Fail([q EXCEPT !.guard = "denied"],
              ApiError(403, "Cannot create subscription for another user"))
    ELSE [q EXCEPT !.guard = "passed", !.pc = "sc_insert"]

SubCreateStart(r) ==
    /\ reqs[r].pc = "handler"
    /\ reqs[r].route = "sub_create"
    /\ Set(r, SubCreateSync(reqs[r]))
    /\ DbUnchanged

\* the insert answers: a store error, or the new row under a fresh id
SubCreateInsert(r) ==
    LET q == Issue(reqs[r], Write("subscriptions", "insert", reqs[r].body.user_id)) IN
    /\ reqs[r].pc = "sc_insert"
    /\ \/ /\ Set(r, Fail(q, ApiError(500, "store error")))
          /\ UNCHANGED subscriptions
       \/ \E s \in SubIds :
            /\ subscriptions[s] = NoSub
            /\ subscriptions' = [subscriptions EXCEPT ![s] =
                   [id |-> s, user_id |-> q.body.user_id,
                    tier |-> q.body.tier, status |-> q.body.status]]
            /\ Set(r, [q EXCEPT !.pc = "sc_profile"])
    /\ UNCHANGED <<env, profiles, dreams, served, accounts>>

\* the profile update answers (its result is not looked at), then 201
SubCreateProfile(r) ==
    LET q == Issue(reqs[r], Write("profiles", "update", reqs[r].body.user_id)) IN
    /\ reqs[r].pc = "sc_profile"
    /\ \/ profiles' = ProfileTierUpdate(profiles, q.body.user_id, q.body.tier)
       \/ UNCHANGED profiles
    /\ Set(r, Respond(q, 201))
    /\ UNCHANGED <<env, subscriptions, dreams, served, accounts>>

\* faulty variant, for comparison: user_id stays in the update set
StripUserId_Keep(b) == b

\* delete updates.user_id
StripUserId(b) == [b EXCEPT !.user_id = Undef]

\* PUT /api/subscriptions/:id, lines 112-128: validation, delete updates.user_id
SubUpdateSync(q) ==
    IF ~ValidSubscriptionUpdate(q.body) THEN Respond400(q)
    ELSE [q EXCEPT !.body = StripUserId(q.body), !.pc = "su_fetch"]

SubUpdateStart(r) ==
    /\ reqs[r].pc = "handler"
    /\ reqs[r].route = "sub_update"
    /\ Set(r, SubUpdateSync(reqs[r]))
    /\ DbUnchanged

\* update and cancel: the fetched subscription and the ownership check
SubFetched(q, resp, msg, nextPc) ==
    IF resp.error # "" THEN Fail(q, ApiError(500, "store error"))
    ELSE IF resp.data = NoSub THEN Fail(q, ApiError(404, "Subscription not found"))
    ELSE IF GuardDenies(resp.data.user_id, q)
    THEN Fail([q EXCEPT !.guard = "denied", !.subscription = resp.data],
              ApiError(403, msg))
    ELSE [q EXCEPT !.guard = "passed", !.subscription = resp.data, !.pc = nextPc]

SubUpdateFetch(r) ==
    /\ reqs[r].pc = "su_fetch"
    /\ \E resp \in SelectSingle(subscriptions, NoSub, reqs[r].paramId) :
          Set(r, SubFetched(reqs[r], resp,
                            "Cannot update subscription for another user", "su_update"))
    /\ DbUnchanged

\* subscriptions.update(updates).eq('id', id): the fields the body carries
ApplySubUpdates(row, b) ==
    [row EXCEPT !.tier = IF b.tier # Undef THEN b.tier ELSE @,
                !.status = IF b.status # Undef THEN b.status ELSE @,
                !.user_id = IF b.user_id # Undef THEN b.user_id ELSE @]

SubUpdateWrite(r) ==
    LET q == Issue(reqs[r], Write("subscriptions", "update",
                                  subscriptions[reqs[r].paramId].user_id)) IN
    /\ reqs[r].pc = "su_update"
    /\ \/ /\ Set(r, Fail(q, ApiError(500, "store error")))
          /\ UNCHANGED subscriptions
       \/ /\ subscriptions[q.paramId] # NoSub
          /\ subscriptions' = [subscriptions EXCEPT ![q.paramId] =
                                  ApplySubUpdates(@, q.body)]
          /\ Set(r, IF Truthy(q.body.tier)
                    THEN [q EXCEPT !.pc = "su_profile"]
                    ELSE Respond(q, 200))
    /\ UNCHANGED <<env, profiles, dreams, served, accounts>>

SubUpdateProfile(r) ==
    LET q == Issue(reqs[r], Write("profiles", "update", reqs[r].subscription.user_id)) IN
    /\ reqs[r].pc = "su_profile"
    /\ \/ profiles' = ProfileTierUpdate(profiles, q.subscription.user_id, q.body.tier)
       \/ UNCHANGED profiles
    /\ Set(r, Respond(q, 200))
    /\ UNCHANGED <<env, subscriptions, dreams, served, accounts>>

\* PUT /api/subscriptions/:id/cancel
SubCancelFetch(r) ==
    /\ reqs[r].pc = "handler"
    /\ reqs[r].route = "sub_cancel"
    /\ \E resp \in SelectSingle(subscriptions, NoSub, reqs[r].paramId) :
          Set(r, SubFetched(reqs[r], resp,
                            "Cannot cancel subscription for another user", "ca_update"))
    /\ DbUnchanged

SubCancelWrite(r) ==
    LET q == Issue(reqs[r], Write("subscriptions", "update",
                                  subscriptions[reqs[r].paramId].user_id)) IN
    /\ reqs[r].pc = "ca_update"
    /\ \/ /\ Set(r, Fail(q, ApiError(500, "store error")))
          /\ UNCHANGED subscriptions
       \/ /\ subscriptions[q.paramId] # NoSub
          /\ subscriptions' = [subscriptions EXCEPT ![q.paramId].status = "cancelled"]
          /\ Set(r, [q EXCEPT !.pc = "ca_profile"])
    /\ UNCHANGED <<env, profiles, dreams, served, accounts>>

SubCancelProfile(r) ==
    LET q == Issue(reqs[r], Write("profiles", "update", reqs[r].subscription.user_id)) IN
    /\ reqs[r].pc = "ca_profile"
    /\ \/ profiles' = ProfileTierUpdate(profiles, q.subscription.user_id, "free")
       \/ UNCHANGED profiles
    /\ Set(r, Respond(q, 200))
    /\ UNCHANGED <<env, subscriptions, dreams, served, accounts>>

(***************************************************************************)
(* Route handlers of /api/dreams that change a dream.  None of them reads  *)
(* the dream's user_id before it writes.                                   *)
(***************************************************************************)
DreamOwner(d) == IF d \in DOMAIN dreams THEN dreams[d].user_id ELSE Undef
DreamExists(d) == d \in DOMAIN dreams /\ dreams[d] # NoDream

\* dreams.update(updates).eq('id', id): the fields the update set carries
ApplyDreamUpdates(row, b) ==
    [row EXCEPT !.title = IF b.title # Undef THEN b.title ELSE @,
                !.user_id = IF b.user_id # Undef THEN b.user_id ELSE @]

\* PUT /api/dreams/:id: delete updates.user_id, update(updates).eq('id', id).select().single()
DreamUpdate(r) ==
    LET q == Issue(reqs[r], Write("dreams", "update", DreamOwner(reqs[r].paramId))) IN
    /\ reqs[r].pc = "handler"
    /\ reqs[r].route = "dream_update"
    /\ \/ /\ Set(r, Fail(q, ApiError(500, "store error")))
          /\ UNCHANGED dreams
       \/ /\ Set(r, Fail(q, ApiError(404, "Dream not found")))
          /\ UNCHANGED dreams
       \/ /\ DreamExists(q.paramId)
          /\ dreams' = [dreams EXCEPT ![q.paramId] =
                           ApplyDreamUpdates(@, StripUserId(q.body))]
          /\ Set(r, Respond(q, 200))
    /\ UNCHANGED <<env, profiles, subscriptions, served, accounts>>

\* DELETE /api/dreams/:id: delete().eq('id', id)
DreamDelete(r) ==
    LET q == Issue(reqs[r], Write("dreams", "delete", DreamOwner(reqs[r].paramId))) IN
    /\ reqs[r].pc = "handler"
    /\ reqs[r].route = "dream_delete"
    /\ \/ /\ Set(r, Fail(q, ApiError(500, "store error")))
          /\ UNCHANGED dreams
       \/ /\ dreams' = IF DreamExists(q.paramId)
                       THEN [dreams EXCEPT ![q.paramId] = NoDream]
                       ELSE dreams
          /\ Set(r, Respond(q, 200))
    /\ UNCHANGED <<env, profiles, subscriptions, served, accounts>>

\* PUT /api/dreams/:id/comic, lines 338-355: imageUrl is required
DreamComicStart(r) ==
    /\ reqs[r].pc = "handler"
    /\ reqs[r].route = "dream_comic"
    /\ Set(r, IF ~Truthy(reqs[r].body.imageUrl)
              THEN Fail(reqs[r], ApiError(400, "Image URL is required"))
              ELSE [reqs[r] EXCEPT !.pc = "dc_update"])
    /\ DbUnchanged

DreamComicWrite(r) ==
    LET q == Issue(reqs[r], Write("dreams", "update", DreamOwner(reqs[r].paramId))) IN
    /\ reqs[r].pc = "dc_update"
    /\ \/ /\ Set(r, Fail(q, ApiError(500, "store error")))
          /\ UNCHANGED dreams
       \/ /\ Set(r, Fail(q, ApiError(404, "Dream not found")))
          /\ UNCHANGED dreams
       \/ /\ DreamExists(q.paramId)
          /\ dreams' = [dreams EXCEPT ![q.paramId].image_url = q.body.imageUrl]
          /\ Set(r, Respond(q, 200))
    /\ UNCHANGED <<env, profiles, subscriptions, served, accounts>>

\* POST /api/dreams/:id/video, lines 377-394: configuration, the dream is fetched
DreamVideoStart(r) ==
    /\ reqs[r].pc = "handler"
    /\ reqs[r].route = "dream_video"
    /\ Set(r, IF ~Truthy(env.VIDEO_SERVICE_URL)
              THEN Fail(reqs[r], ApiError(500, "Video service URL not configured"))
              ELSE [reqs[r] EXCEPT !.pc = "dv_fetch"])
    /\ DbUnchanged

\* lines 390-408: the dream answers, the prompt is posted to the video service
DreamVideoFetch(r) ==
    /\ reqs[r].pc = "dv_fetch"
    /\ \E resp \in SelectSingle(dreams, NoDream, reqs[r].paramId) :
          Set(r, IF resp.error # "" \/ resp.data = NoDream
                 THEN Fail(reqs[r], ApiError(500, "Failed to fetch dream data"))
                 ELSE [reqs[r] EXCEPT !.pc = "dv_post"])
    /\ DbUnchanged

\* lines 404-421: the video service answers (or axios throws)
DreamVideoPost(r) ==
    /\ reqs[r].pc = "dv_post"
    /\ \E taskId \in {"axios error", Undef, "task1"} :
          Set(r, IF taskId = "axios error"
                 THEN Fail(reqs[r], PlainError("Request failed"))
                 ELSE IF Truthy(taskId)
                 THEN [reqs[r] EXCEPT !.pc = "dv_update", !.taskId = taskId]
                 ELSE Respond(reqs[r], 200))
    /\ DbUnchanged

\* lines 414-429: the task id is stored (the result is not looked at), then 200
DreamVideoWrite(r) ==
    LET q == Issue(reqs[r], Write("dreams", "update", DreamOwner(reqs[r].paramId))) IN
    /\ reqs[r].pc = "dv_update"
    /\ \/ UNCHANGED dreams
       \/ /\ DreamExists(q.paramId)
          /\ dreams' = [dreams EXCEPT ![q.paramId].video_task_id = q.taskId]
    /\ Set(r, Respond(q, 200))
    /\ UNCHANGED <<env, profiles, subscriptions, served, accounts>>

(***************************************************************************)
(* SpecAuth: one request at a time through auth or optionalAuth, with      *)
(* every shape of Authorization header.                                    *)
(***************************************************************************)
ObjectTokens ==
    {Token("object", s, i, k, x) :
        s \in ClaimVals, i \in ClaimVals, k \in TokenKeys, x \in BOOLEAN}

AuthTokens ==
    ObjectTokens \cup {Garbage} \cup {Token("string", Undef, Undef, k, FALSE) : k \in TokenKeys}

AuthHeaders ==
    {<<>>, <<Bearer>>, <<Bearer, EmptyPart>>}
    \cup {<<Basic, t>> : t \in {JwtSign(Undef, "u1", "k1")}}
    \cup {<<Bearer, EmptyPart, t>> : t \in {JwtSign(Undef, "u1", "k1")}}
    \cup {<<Bearer, t>> : t \in AuthTokens}

EnvVals ==
    [SUPABASE_JWT_SECRET : SecretVals, JWT_SECRET : SecretVals,
     VIDEO_SERVICE_URL : {"http://video"}, NODE_ENV : {"production"}]

InitAuth ==
    /\ env \in EnvVals
    /\ profiles \in [Users -> {NoRow} \cup {Profile(u, "user", "free") : u \in Users}]
    /\ \A u \in Users : profiles[u] # NoRow => profiles[u].id = u
    /\ accounts = AccountsOf(profiles)
    /\ subscriptions = [s \in SubIds |-> NoSub]
    /\ dreams = [d \in DreamIds |-> NoDream]
    /\ reqs = [r \in ReqIds |-> IdleReq]
    /\ served = 0

\* a request arrives; one request is in flight at a time
Admit(r) ==
    /\ r = 1
    /\ reqs[r].pc = "idle"
    /\ served < MaxServed
    /\ served' = served + 1

ArriveAuth(r) ==
    /\ Admit(r)
    /\ \E route \in {"me", "optional"}, h \in AuthHeaders :
          Set(r, [IdleReq EXCEPT
                    !.pc = IF UsesOptionalAuth(route) THEN "optionalAuth" ELSE "auth",
                    !.route = route, !.authorization = h])
    /\ UNCHANGED <<env, profiles, subscriptions, dreams, accounts>>

NextAuth ==
    \E r \in ReqIds :
        \/ ArriveAuth(r)
        \/ AuthStart(r)
        \/ AuthResume(r)
        \/ OptAuthStart(r)
        \/ OptAuthResume(r)
        \/ PlainHandler(r)
        \/ ErrorHandler(r)
        \/ Finish(r)

SpecAuth == InitAuth /\ [][NextAuth]_vars

(***************************************************************************)
(* Spec: requests of authenticated users to /api/subscriptions.            *)
(* SpecDreams: requests of authenticated users to the routes of            *)
(* /api/dreams that change a dream.                                        *)
(***************************************************************************)
SubRoutes == {"sub_create", "sub_update", "sub_cancel"}
DreamRoutes == {"dream_update", "dream_delete", "dream_comic", "dream_video"}

Input(id, b) == [paramId |-> id, body |-> b]

\* the request inputs of each route: path parameter and body
RouteInputs(route) ==
    IF route = "sub_create"
    THEN {Input(Undef, [NoBody EXCEPT !.user_id = u, !.tier = t, !.status = "active"]) :
             u \in Users, t \in {"free", "pro"}}
         \cup {Input(Undef, [NoBody EXCEPT !.tier = "pro", !.status = "active"]),
               Input(Undef, [NoBody EXCEPT !.user_id = "u1", !.tier = "pro",
                                           !.status = "active", !.price = "x"])}
    ELSE IF route = "sub_update"
    THEN {Input(s, [NoBody EXCEPT !.tier = t, !.price = Undef]) :
             s \in SubIds, t \in {Undef, "free", "pro"}}
         \cup {Input("s1", [NoBody EXCEPT !.user_id = "u2", !.status = "paused",
                                          !.price = Undef]),
               Input("s1", [NoBody EXCEPT !.tier = "pro", !.price = "x"])}
    ELSE IF route = "sub_cancel"
    THEN {Input(s, NoBody) : s \in SubIds}
    ELSE IF route = "dream_update"
    THEN {Input(d, [NoBody EXCEPT !.title = "t2", !.user_id = u]) :
             d \in DreamIds, u \in {Undef, "u2"}}
    ELSE IF route = "dream_comic"
    THEN {Input(d, [NoBody EXCEPT !.imageUrl = i]) :
             d \in DreamIds, i \in {Undef, "img"}}
    ELSE {Input(d, NoBody) : d \in DreamIds}

\* the clients hold tokens issued by login ({id, email} under JWT_SECRET)
ApiHeaders == {<<Bearer, JwtSign(Undef, u, env.JWT_SECRET)>> : u \in Users}

Dream0(d) == [id |-> d, user_id |-> "u1", title |-> "t1",
              image_url |-> Undef, video_task_id |-> Undef]

\* u1 is an ordinary user; u2 is an ordinary user or an administrator
InitStore ==
    /\ profiles \in [Users -> {Profile(u, ro, "free") : u \in Users, ro \in {"user", "admin"}}]
    /\ \A u \in Users : profiles[u].id = u
    /\ profiles["u1"].role = "user"
    /\ accounts = AccountsOf(profiles)
    /\ subscriptions \in [SubIds -> {NoSub, [id |-> "s1", user_id |-> "u1",
                                             tier |-> "pro", status |-> "active"]}]
    /\ subscriptions["s2"] = NoSub
    /\ dreams = [d \in DreamIds |-> Dream0(d)]
    /\ reqs = [r \in ReqIds |-> IdleReq]
    /\ served = 0

Init ==
    /\ env = [SUPABASE_JWT_SECRET |-> "k1", JWT_SECRET |-> "k2",
              VIDEO_SERVICE_URL |-> "http://video", NODE_ENV |-> "production"]
    /\ InitStore

InitDreams ==
    /\ env \in [SUPABASE_JWT_SECRET : {"k1"}, JWT_SECRET : {"k2"},
                VIDEO_SERVICE_URL : {"", "http://video"}, NODE_ENV : {"production"}]
    /\ InitStore

ArriveAt(r, routes) ==
    /\ Admit(r)
    /\ \E route \in routes, h \in ApiHeaders :
        \E in \in RouteInputs(route) :
          Set(r, [IdleReq EXCEPT !.pc = "auth", !.route = route, !.authorization = h,
                                 !.paramId = in.paramId, !.body = in.body])
    /\ UNCHANGED <<env, profiles, subscriptions, dreams, accounts>>

ArriveSub(r) == ArriveAt(r, SubRoutes)
ArriveDream(r) == ArriveAt(r, DreamRoutes)

Next ==
    \E r \in ReqIds :
        \/ ArriveSub(r)
        \/ AuthStart(r)
        \/ AuthResume(r)
        \/ ErrorHandler(r)
        \/ Finish(r)
        \/ SubCreateStart(r)
        \/ SubCreateInsert(r)
        \/ SubCreateProfile(r)
        \/ SubUpdateStart(r)
        \/ SubUpdateFetch(r)
        \/ SubUpdateWrite(r)
        \/ SubUpdateProfile(r)
        \/ SubCancelFetch(r)
        \/ SubCancelWrite(r)
        \/ SubCancelProfile(r)

Spec == Init /\ [][Next]_vars

NextDreams ==
    \E r \in ReqIds :
        \/ ArriveDream(r)
        \/ AuthStart(r)
        \/ AuthResume(r)
        \/ ErrorHandler(r)
        \/ Finish(r)
        \/ DreamUpdate(r)
        \/ DreamDelete(r)
        \/ DreamComicStart(r)
        \/ DreamComicWrite(r)
        \/ DreamVideoStart(r)
        \/ DreamVideoFetch(r)
        \/ DreamVideoPost(r)
        \/ DreamVideoWrite(r)

SpecDreams == InitDreams /\ [][NextDreams]_vars

(***************************************************************************)
(* Vocabulary of the claims                                                *)
(***************************************************************************)
Strict(q) == q.route # "none" /\ ~UsesOptionalAuth(q.route)
Optional(q) == q.route # "none" /\ UsesOptionalAuth(q.route)
InAuth(q) == q.pc \in {"auth", "auth_lookup", "optionalAuth", "opt_lookup"}
PastAuth(q) == q.pc # "idle" /\ ~InAuth(q)
ContextEmpty(q) == q.user = NoRow /\ q.userId = Undef
Proceeded(q) == q.nexts = <<NoError>>

\* the header is missing, lacks the `Bearer ` prefix or carries an empty token
NoBearerToken(h) == Len(h) < 2 \/ h[1].kind # "Bearer" \/ h[2].kind = "empty"
TokenOf(q) == q.authorization[2]

\* the secret of the issuer branch a payload selects (a truthy sub selects the platform)
SelectedSecret(t, e) ==
    IF Truthy(t.sub) THEN e.SUPABASE_JWT_SECRET ELSE e.JWT_SECRET
SignatureVerified(t, e) ==
    /\ t.kind = "object"
    /\ Truthy(t.sub) \/ Truthy(t.id)
    /\ SelectedSecret(t, e) # ""
    /\ t.key = SelectedSecret(t, e)
    /\ ~t.expired

InvalidOrExpired == [kind |-> "ApiError", statusCode |-> 401,
                     message |-> "Invalid or expired token"]
TokenRequired == [kind |-> "ApiError", statusCode |-> 401,
                  message |-> "Authorization token required"]
Answered(q, e) ==
    q.pc = "done" =>
        /\ q.res.status = e.statusCode /\ q.res.message = e.message
        /\ ~q.res.success

(***************************************************************************)
(* C1: strict authentication is fail-closed.  The handler is reached only  *)
(* with a verified signature and a record returned by the lookup, and then *)
(* req.user is that record and req.userId its id; otherwise next gets an   *)
(* error and req.user / req.userId stay absent.  A valid id-shaped token   *)
(* whose user exists proceeds; with its signature altered it is answered   *)
(* 401 `Invalid or expired token`.                                         *)
(***************************************************************************)
C1_FailClosed ==
    \A r \in ReqIds :
        LET q == reqs[r] IN
        Strict(q) =>
          /\ InAuth(q) => q.nexts = <<>> /\ ContextEmpty(q)
          /\ PastAuth(q) => Len(q.nexts) = 1
          /\ PastAuth(q) /\ Proceeded(q) =>
                /\ ~NoBearerToken(q.authorization)
                /\ SignatureVerified(TokenOf(q), env)
                /\ \E i \in 1..Len(q.verifies) : q.verifies[i].ok
                /\ q.resp.error = "" /\ q.resp.data # NoRow
                /\ q.lookups = <<q.resp.data.id>>
                /\ q.user = q.resp.data /\ q.userId = q.resp.data.id
          /\ PastAuth(q) /\ ~Proceeded(q) =>
                /\ q.nexts[1].kind # "none"
                /\ q.err = q.nexts[1]
                /\ ContextEmpty(q)
          /\ PastAuth(q) /\ ~NoBearerToken(q.authorization) =>
                LET t == TokenOf(q) IN
                /\ t.key = "bad" => q.err = InvalidOrExpired /\ Answered(q, InvalidOrExpired)
                /\ (/\ t.kind = "object" /\ ~Truthy(t.sub) /\ Truthy(t.id)
                    /\ env.JWT_SECRET # "" /\ t.key = env.JWT_SECRET /\ ~t.expired
                    /\ q.resp.error = "" /\ q.resp.data # NoRow)
                   => Proceeded(q)

C1_Witness ==
    \E r \in ReqIds :
        LET q == reqs[r] IN
        /\ q.route = "me" /\ q.pc = "done" /\ q.res.status = 200
        /\ Proceeded(q)
        /\ TokenOf(q).id = "u1" /\ TokenOf(q).sub = Undef
        /\ q.userId = "u1" /\ q.user = profiles["u1"]

(***************************************************************************)
(* C2: in auth and in optionalAuth no claim of a token is the key of a     *)
(* user-store lookup, or populates req.user / req.userId, unless the       *)
(* token's signature was verified against the secret of its issuer branch. *)
(* (Stated as the claim; optionalAuth's platform branch violates it.)      *)
(***************************************************************************)
C2_NoClaimTrustedUnverified ==
    \A r \in ReqIds :
        LET q == reqs[r] IN
        (q.lookups # <<>> \/ ~ContextEmpty(q)) =>
            /\ ~NoBearerToken(q.authorization)
            /\ SignatureVerified(TokenOf(q), env)

(***************************************************************************)
(* C3, as claimed: a payload that contains `sub` is verified with the      *)
(* platform secret only, a payload with `id` and no `sub` with the local   *)
(* secret only.                                                            *)
(***************************************************************************)
C3_IssuerByPresence ==
    \A r \in ReqIds :
        LET q == reqs[r] IN
        (Strict(q) /\ q.pc # "auth" /\ ~NoBearerToken(q.authorization)
                   /\ TokenOf(q).kind = "object") =>
            LET t == TokenOf(q) IN
            /\ t.sub # Undef =>
                  \A i \in 1..Len(q.verifies) : q.verifies[i].secret = "SUPABASE_JWT_SECRET"
            /\ (t.sub = Undef /\ t.id # Undef) =>
                  \A i \in 1..Len(q.verifies) : q.verifies[i].secret = "JWT_SECRET"

\* the request as it arrived, before any middleware ran
Arrived(q) ==
    [IdleReq EXCEPT !.pc = "auth", !.route = q.route, !.authorization = q.authorization,
                    !.paramId = q.paramId, !.body = q.body]
\* auth is suspended in, or has failed before, the lookup
AfterVerifier(q) == q.pc = "auth_lookup" \/ (q.pc = "error" /\ q.resp = NoResp)

(***************************************************************************)
(* C3, amended: a payload with a truthy `sub` (also one that carries `id`  *)
(* too) is verified with the platform secret only; a payload with a truthy *)
(* `id` and no truthy `sub` is verified with the local secret only; the    *)
(* secret of the other branch, set or not, does not change the outcome.    *)
(***************************************************************************)
C3_IssuerByTruthiness ==
    \A r \in ReqIds :
        LET q == reqs[r] IN
        (Strict(q) /\ q.pc # "auth" /\ ~NoBearerToken(q.authorization)
                   /\ TokenOf(q).kind = "object") =>
            LET t == TokenOf(q) IN
            /\ Truthy(t.sub) =>
                /\ \A i \in 1..Len(q.verifies) : q.verifies[i].secret = "SUPABASE_JWT_SECRET"
                /\ env.SUPABASE_JWT_SECRET # "" => Len(q.verifies) = 1
                /\ AfterVerifier(q) =>
                     \A s \in SecretVals :
                        AuthSync(Arrived(q), [env EXCEPT !.JWT_SECRET = s]) = q
            /\ (~Truthy(t.sub) /\ Truthy(t.id)) =>
                /\ \A i \in 1..Len(q.verifies) : q.verifies[i].secret = "JWT_SECRET"
                /\ env.JWT_SECRET # "" => Len(q.verifies) = 1
                /\ AfterVerifier(q) =>
                     \A s \in SecretVals :
                        AuthSync(Arrived(q), [env EXCEPT !.SUPABASE_JWT_SECRET = s]) = q

\* a token with both claims, verified with the platform secret while no local secret is set
C3_Witness ==
    \E r \in ReqIds :
        LET q == reqs[r] IN
        /\ Strict(q) /\ PastAuth(q) /\ Proceeded(q)
        /\ TokenOf(q).sub = "u1" /\ TokenOf(q).id = "u2"
        /\ env.JWT_SECRET = ""
        /\ q.verifies = <<VerifyCall("SUPABASE_JWT_SECRET", TRUE)>>
        /\ q.userId = "u1"

\* the rejection both cases of C4 end in
RejectedUnauthorized(q) ==
    /\ q.pc \in {"error", "done"}
    /\ q.err.statusCode = 401
    /\ q.nexts = <<q.err>>
    /\ q.lookups = <<>>
    /\ ContextEmpty(q)
    /\ q.pc = "done" => q.res.status = 401

(***************************************************************************)
(* C4, as claimed: with different platform and local secrets, a token      *)
(* whose payload carries `id` and no `sub`, signed with the platform       *)
(* secret, and a token whose payload carries `sub`, signed with the local  *)
(* secret, both end in a 401 with req.user / req.userId absent.            *)
(***************************************************************************)
C4_WrongSecretByPresence ==
    \A r \in ReqIds :
        LET q == reqs[r] IN
        (Strict(q) /\ q.pc # "auth" /\ ~NoBearerToken(q.authorization)
                   /\ TokenOf(q).kind = "object"
                   /\ env.SUPABASE_JWT_SECRET # env.JWT_SECRET) =>
            LET t == TokenOf(q) IN
            /\ (t.sub = Undef /\ t.id # Undef /\ t.key = env.SUPABASE_JWT_SECRET)
                  => RejectedUnauthorized(q)
            /\ (t.sub # Undef /\ t.key = env.JWT_SECRET)
                  => RejectedUnauthorized(q)

(***************************************************************************)
(* C4, amended: with different platform and local secrets, a token with a  *)
(* truthy `id` and no truthy `sub`, signed with the platform secret, and a *)
(* token with a truthy `sub`, signed with the local secret, both end in a  *)
(* 401 with req.user / req.userId absent and no user-store lookup.         *)
(***************************************************************************)
C4_WrongSecretRejected ==
    \A r \in ReqIds :
        LET q == reqs[r] IN
        (Strict(q) /\ q.pc # "auth" /\ ~NoBearerToken(q.authorization)
                   /\ TokenOf(q).kind = "object"
                   /\ env.SUPABASE_JWT_SECRET # env.JWT_SECRET) =>
            LET t == TokenOf(q) IN
            /\ (~Truthy(t.sub) /\ Truthy(t.id) /\ t.key = env.SUPABASE_JWT_SECRET)
                  => RejectedUnauthorized(q)
            /\ (Truthy(t.sub) /\ t.key = env.JWT_SECRET)
                  => RejectedUnauthorized(q)

\* an unexpired id-shaped token signed with the platform secret, answered 401
C4_Witness ==
    \E r \in ReqIds :
        LET q == reqs[r] IN
        /\ Strict(q) /\ q.pc = "done" /\ q.res.status = 401
        /\ ~NoBearerToken(q.authorization)
        /\ TokenOf(q) = JwtSign(Undef, "u1", env.SUPABASE_JWT_SECRET)
        /\ env.SUPABASE_JWT_SECRET = "k1" /\ env.JWT_SECRET = "k2"
        /\ q.verifies = <<VerifyCall("JWT_SECRET", FALSE)>>

(***************************************************************************)
(* C7: strict authentication answers 401 `Authorization token required`    *)
(* when the Authorization header is missing, does not start with `Bearer ` *)
(* or carries an empty token, and then decodes nothing, verifies nothing   *)
(* and looks nobody up.                                                    *)
(***************************************************************************)
C7_TokenRequired ==
    \A r \in ReqIds :
        LET q == reqs[r] IN
        (Strict(q) /\ q.pc # "auth" /\ NoBearerToken(q.authorization)) =>
            /\ q.pc \in {"error", "done"}
            /\ q.err = TokenRequired
            /\ q.nexts = <<TokenRequired>>
            /\ Answered(q, TokenRequired)
            /\ q.decodes = 0 /\ q.verifies = <<>> /\ q.lookups = <<>>
            /\ q.resp = NoResp
            /\ ContextEmpty(q)

\* a header of another scheme that carries a valid token, answered 401
C7_Witness ==
    \E r \in ReqIds :
        LET q == reqs[r] IN
        /\ Strict(q) /\ q.pc = "done"
        /\ Len(q.authorization) = 2 /\ q.authorization[1] = Basic
        /\ q.authorization[2].key = env.JWT_SECRET
        /\ q.res.status = 401 /\ q.res.message = "Authorization token required"

\* what makes an optionalAuth request a failure path
OptFailure(q) ==
    \/ NoBearerToken(q.authorization)
    \/ ~SignatureVerified(TokenOf(q), env)
    \/ q.resp.error # ""
    \/ q.resp.data = NoRow

(***************************************************************************)
(* C8: optionalAuth never rejects: next is called with no error, and on    *)
(* every failure path (no header, no `Bearer ` prefix, empty token,        *)
(* undecodable token, neither sub nor id, missing secret, signature that   *)
(* does not verify, lookup with no record or failing) req.user and         *)
(* req.userId are absent.  (Stated as the claim; the unverified platform   *)
(* branch of optionalAuth violates it.)                                    *)
(***************************************************************************)
C8_OptionalNeverRejects ==
    \A r \in ReqIds :
        LET q == reqs[r] IN
        (Optional(q) /\ PastAuth(q)) =>
            /\ q.nexts = <<NoError>>
            /\ OptFailure(q) => ContextEmpty(q)

(***************************************************************************)
(* C9: in strict authentication, once a non-empty bearer token has been    *)
(* extracted, every failure of verification or of the lookup gives the     *)
(* client the same answer: 401 `Invalid or expired token`.                 *)
(***************************************************************************)
C9_UniformRejection ==
    \A r \in ReqIds :
        LET q == reqs[r] IN
        (Strict(q) /\ PastAuth(q) /\ ~NoBearerToken(q.authorization)
                   /\ ~Proceeded(q)) =>
            /\ q.nexts = <<InvalidOrExpired>>
            /\ q.err = InvalidOrExpired
            /\ Answered(q, InvalidOrExpired)

\* a verified token whose user-store lookup failed, answered like a bad signature
C9_Witness ==
    \E r \in ReqIds :
        LET q == reqs[r] IN
        /\ Strict(q) /\ q.pc = "done"
        /\ q.verifies = <<VerifyCall("SUPABASE_JWT_SECRET", TRUE)>>
        /\ q.resp.error = "transport"
        /\ q.res.status = 401 /\ q.res.message = "Invalid or expired token"
        /\ ~q.res.success

(***************************************************************************)
(* C10: in strict authentication, when the signing secret of the selected  *)
(* issuer branch is not configured, the error given to next has statusCode *)
(* 500.  (Stated as the claim; the inner catch of auth turns the 500 into  *)
(* a 401.)                                                                 *)
(***************************************************************************)
C10_MisconfigurationIs500 ==
    \A r \in ReqIds :
        LET q == reqs[r] IN
        (Strict(q) /\ PastAuth(q) /\ ~NoBearerToken(q.authorization)
                   /\ TokenOf(q).kind = "object"
                   /\ (Truthy(TokenOf(q).sub) \/ Truthy(TokenOf(q).id))
                   /\ SelectedSecret(TokenOf(q), env) = "") =>
            /\ Len(q.nexts) = 1
            /\ q.nexts[1].statusCode = 500

\* the owner the guard of a subscription request is about
GuardedOwner(q) ==
    IF q.route = "sub_create" THEN q.body.user_id ELSE q.subscription.user_id
\* owner or administrator
MayActOn(owner, q) == owner = q.userId \/ q.user.role \in {"admin", "superadmin"}

(***************************************************************************)
(* C5: Authorization Guard on subscriptions.  Create, update and cancel    *)
(* are allowed iff the subscription's user_id is req.userId or the role of *)
(* req.user contains 'admin'; otherwise the request is answered 403 and    *)
(* issues no insert or update on subscriptions or profiles: the check      *)
(* comes before every write.                                               *)
(***************************************************************************)
C5_SubscriptionGuard ==
    \A r \in ReqIds :
        LET q == reqs[r] IN
        q.route \in SubRoutes =>
          /\ q.guard = "none" => q.writes = {}
          /\ q.guard = "passed" =>
                /\ MayActOn(GuardedOwner(q), q)
                /\ q.userId = TokenOf(q).id
                /\ q.route # "sub_create" =>
                      subscriptions[q.paramId].user_id = q.subscription.user_id
          /\ q.guard = "denied" =>
                /\ ~MayActOn(GuardedOwner(q), q)
                /\ q.writes = {}
                /\ q.pc \in {"error", "done"}
                /\ q.err.kind = "ApiError" /\ q.err.statusCode = 403
                /\ q.pc = "done" => q.res.status = 403 /\ ~q.res.success
          /\ \A w \in q.writes :
                /\ w.table \in {"subscriptions", "profiles"}
                /\ MayActOn(w.owner, q)

\* u2, not an administrator, is refused the cancellation of u1's subscription
C5_Witness ==
    \E r \in ReqIds :
        LET q == reqs[r] IN
        /\ q.route = "sub_cancel" /\ q.pc = "done" /\ q.res.status = 403
        /\ q.userId = "u2" /\ q.user.role = "user"
        /\ q.subscription.user_id = "u1"
        /\ subscriptions[q.paramId].status = "active"

(***************************************************************************)
(* C6: the Authorization Guard on dreams.  For PUT /:id, DELETE /:id,      *)
(* PUT /:id/comic and POST /:id/video a user who is neither the owner of   *)
(* the dream nor an administrator is answered 403 before any update or     *)
(* delete of the dream.  (Stated as the claim; the handlers have no        *)
(* ownership check.)                                                       *)
(***************************************************************************)
C6_DreamGuard ==
    \A r \in ReqIds :
        LET q == reqs[r] IN
        q.route \in DreamRoutes =>
            \A w \in q.writes :
                (w.table = "dreams" /\ w.owner \in Users) => MayActOn(w.owner, q)

\* the response the client gets for the error given to next
ClientStatus(q) == IF q.nexts[1].kind = "ApiError" THEN q.nexts[1].statusCode ELSE 500

(***************************************************************************)
(* C11: when getUserById throws on a transport/store error during strict   *)
(* authentication, the failure is propagated as a 500-class error, unlike  *)
(* the outcome for an absent user record.  (Stated as the claim; the inner *)
(* catch of auth turns the thrown Error into the 401 of every other        *)
(* failure.)                                                               *)
(***************************************************************************)
C11_StoreErrorIs500 ==
    \A r \in ReqIds :
        LET q == reqs[r] IN
        (Strict(q) /\ PastAuth(q) /\ q.resp.error = "transport") =>
            /\ Len(q.nexts) = 1
            /\ q.nexts[1].kind # "none"
            /\ ClientStatus(q) >= 500
            /\ q.pc = "done" => q.res.status >= 500

(***************************************************************************)
(* C12: when the token of a strict request verified and the user-store     *)
(* lookup for its subject returns no record, next is called with a 401     *)
(* error, req.user / req.userId stay absent and the route handler does not *)
(* run.                                                                    *)
(***************************************************************************)
C12_UserNotFound ==
    \A r \in ReqIds :
        LET q == reqs[r] IN
        (Strict(q) /\ PastAuth(q) /\ ~NoBearerToken(q.authorization)
                   /\ SignatureVerified(TokenOf(q), env)
                   /\ q.resp # NoResp /\ q.resp.data = NoRow
                   /\ q.resp.error # "transport") =>
            /\ q.pc \in {"error", "done"}
            /\ Len(q.nexts) = 1
            /\ q.nexts[1].kind = "ApiError" /\ q.nexts[1].statusCode = 401
            /\ q.err = q.nexts[1]
            /\ ContextEmpty(q)
            /\ q.pc = "done" => q.res.status = 401 /\ ~q.res.success

\* a verified token of u2, whose profile does not exist: null data, answered 401
C12_Witness ==
    \E r \in ReqIds :
        LET q == reqs[r] IN
        /\ Strict(q) /\ q.pc = "done" /\ q.res.status = 401
        /\ q.verifies = <<VerifyCall("JWT_SECRET", TRUE)>>
        /\ q.lookups = <<"u2">>
        /\ profiles["u2"] = NoRow
        /\ q.resp = StoreResp(NoRow, "")

(***************************************************************************)
(* C13: in every state of every request, under auth and optionalAuth,      *)
(* req.userId is present iff req.user is present; when they are present a  *)
(* user-store lookup of this request returned a record, req.user is that   *)
(* record and req.userId is its id.                                        *)
(***************************************************************************)
C13_ContextInvariant ==
    \A r \in ReqIds :
        LET q == reqs[r] IN
        /\ q.userId # Undef <=> q.user # NoRow
        /\ q.userId # Undef =>
              /\ Len(q.lookups) = 1
              /\ q.resp.error = "" /\ q.resp.data # NoRow
              /\ q.user = q.resp.data
              /\ q.userId = q.user.id

\* an optionalAuth request that went on with the record of u2
C13_Witness ==
    \E r \in ReqIds :
        LET q == reqs[r] IN
        /\ Optional(q) /\ PastAuth(q)
        /\ q.userId = "u2" /\ q.user = profiles["u2"] /\ q.user # NoRow

(***************************************************************************)
(* SpecConc: two requests in flight at once, through auth or optionalAuth, *)
(* their steps interleaved in every order.                                 *)
(***************************************************************************)
ConcHeaders ==
    {<<Bearer, t>> : t \in {JwtSign(Undef, "u1", "k2"), JwtSign(Undef, "u2", "k2"),
                            JwtSign("u2", Undef, "k1"),
                            AlterSignature(JwtSign("u1", Undef, "k1"))}}

InitConc ==
    /\ env = [SUPABASE_JWT_SECRET |-> "k1", JWT_SECRET |-> "k2",
              VIDEO_SERVICE_URL |-> "http://video", NODE_ENV |-> "production"]
    /\ profiles \in [Users -> {NoRow} \cup {Profile(u, "user", "free") : u \in Users}]
    /\ profiles["u1"] = Profile("u1", "user", "free")
    /\ profiles["u2"] \in {NoRow, Profile("u2", "user", "free")}
    /\ accounts = AccountsOf(profiles)
    /\ subscriptions = [s \in SubIds |-> NoSub]
    /\ dreams = [d \in DreamIds |-> NoDream]
    /\ reqs = [r \in ReqIds |-> IdleReq]
    /\ served = 0

\* a request arrives while another one may be in flight
ArriveConc(r) ==
    /\ reqs[r].pc = "idle"
    /\ served < MaxServed
    /\ served' = served + 1
    /\ \E route \in {"me", "optional"}, h \in ConcHeaders :
          Set(r, [IdleReq EXCEPT
                    !.pc = IF UsesOptionalAuth(route) THEN "optionalAuth" ELSE "auth",
                    !.route = route, !.authorization = h])
    /\ UNCHANGED <<env, profiles, subscriptions, dreams, accounts>>

NextConc ==
    \E r \in ReqIds :
        \/ ArriveConc(r)
        \/ AuthStart(r)
        \/ AuthResume(r)
        \/ OptAuthStart(r)
        \/ OptAuthResume(r)
        \/ PlainHandler(r)
        \/ ErrorHandler(r)
        \/ Finish(r)

SpecConc == InitConc /\ [][NextConc]_vars

\* the subject a token names: its sub claim when truthy, else its id claim
TokenSubject(t) == IF Truthy(t.sub) THEN t.sub ELSE t.id

OwnIdentity(q) ==
    /\ q.lookups # <<>> =>
          /\ ~NoBearerToken(q.authorization)
          /\ q.lookups = <<TokenSubject(TokenOf(q))>>
    /\ q.userId # Undef =>
          /\ ~NoBearerToken(q.authorization)
          /\ q.userId = TokenSubject(TokenOf(q))
          /\ q.user = profiles[q.userId]
          /\ q.resp.data = q.user

\* a step of request r leaves the other requests as they are
StepOfOne ==
    \A r \in ReqIds :
        reqs'[r] # reqs[r] => \A x \in ReqIds \ {r} : reqs'[x] = reqs[x]

(***************************************************************************)
(* C14: with several requests authenticated concurrently, their steps      *)
(* interleaved in any order, each request's req.user / req.userId comes    *)
(* from its own token only (req.userId is the id of the record looked up   *)
(* for the subject of that token), and no step of one request changes      *)
(* another request.                                                        *)
(***************************************************************************)
C14_RequestIsolation ==
    /\ [](\A r \in ReqIds : OwnIdentity(reqs[r]))
    /\ [][StepOfOne]_vars

\* two requests past authentication at the same time, each with its own identity
C14_Witness ==
    /\ reqs[1].pc = "handler" /\ reqs[2].pc = "handler"
    /\ reqs[1].userId = "u1" /\ reqs[2].userId = "u2"
    /\ reqs[1].route = "me" /\ reqs[2].route = "optional"

\* what authentication made of a request
AuthOutcome(q) == <<q.nexts, q.user, q.userId, q.verifies, q.lookups>>

NodeEnvs == {"", "development", "test", "production"}

InitErrors ==
    /\ env \in [SUPABASE_JWT_SECRET : {"k1"}, JWT_SECRET : {"k2"},
                VIDEO_SERVICE_URL : {"", "http://video"}, NODE_ENV : NodeEnvs]
    /\ InitStore

SpecErrors == InitErrors /\ [][NextDreams]_vars

(***************************************************************************)
(* C16: every error that reaches errorHandler is answered with its         *)
(* statusCode (500 when it carries none) and the body {success: false,     *)
(* error: {message}}; the stack is part of the body only in a              *)
(* non-production build (NODE_ENV 'development'), never when NODE_ENV is   *)
(* 'production'.                                                           *)
(***************************************************************************)
C16_ErrorResponse ==
    \A r \in ReqIds :
        LET q == reqs[r] IN
        (q.pc = "done" /\ q.err.kind # "none") =>
            /\ q.err.kind = "ApiError" => q.res.status = q.err.statusCode
            /\ q.err.kind = "Error" => q.res.status = 500
            /\ ~q.res.success
            /\ q.res.message =
                  (IF q.err.message = "" THEN "Something went wrong" ELSE q.err.message)
            /\ q.res.stack => env.NODE_ENV # "production"
            /\ q.res.stack <=> env.NODE_ENV = "development"

\* a plain Error answered 500 with its stack in development
C16_Witness ==
    \E r \in ReqIds :
        LET q == reqs[r] IN
        /\ q.pc = "done" /\ q.err = PlainError("Request failed")
        /\ q.res.status = 500 /\ q.res.message = "Request failed"
        /\ q.res.stack /\ env.NODE_ENV = "development"

(***************************************************************************)
(* C17, as claimed: both variants write the context of every request       *)
(* exactly once, before next is called: a request whose middleware has     *)
(* called next has had req.user / req.userId written.                      *)
(***************************************************************************)
C17_ContextWrittenOnce ==
    \A r \in ReqIds :
        LET q == reqs[r] IN
        (q.pc # "idle" /\ PastAuth(q)) => ~ContextEmpty(q)

\* a step of one request that assigns req.user or req.userId
WritesContext(p, q) == q.user # p.user \/ q.userId # p.userId

ContextStep ==
    \A r \in ReqIds :
        LET p == reqs[r]
            q == reqs'[r]
        IN
        (p.pc # "idle" /\ q.pc # "idle") =>
            /\ WritesContext(p, q) =>
                  /\ ContextEmpty(p) /\ ~ContextEmpty(q)
                  /\ InAuth(p) /\ p.nexts = <<>>
                  /\ q.nexts = <<NoError>>
            /\ (p.nexts = <<>> /\ q.nexts = <<NoError>> /\ Strict(q)) =>
                  WritesContext(p, q)
            /\ (p.nexts = <<>> /\ q.nexts = <<NoError>> /\ Optional(q)) =>
                  (WritesContext(p, q) <=> (q.resp.error = "" /\ q.resp.data # NoRow))
            /\ (p.nexts = <<>> /\ Len(q.nexts) = 1 /\ q.nexts[1].kind # "none") =>
                  ~WritesContext(p, q) /\ ContextEmpty(q)

(***************************************************************************)
(* C17, amended: both variants write the context of a request at most      *)
(* once, in the synchronous run that ends with the call of next and never  *)
(* after next has been called; the write happens exactly when the lookup   *)
(* returned a record (in auth: exactly when next is called without an      *)
(* error), and a rejected request's context is never written.              *)
(***************************************************************************)
C17_ContextWrittenAtMostOnce == [][ContextStep]_vars

\* a strict request answered by its handler, its context written before next
C17_Witness ==
    \E r \in ReqIds :
        LET q == reqs[r] IN
        /\ Strict(q) /\ q.pc = "done" /\ q.res.status = 200
        /\ q.nexts = <<NoError>>
        /\ q.userId = "u2" /\ q.user = profiles["u2"]

(***************************************************************************)
(* FairSpecAuth: SpecAuth where the event loop runs a middleware that can  *)
(* run, and the user-store lookup of a suspended middleware returns or     *)
(* fails.                                                                  *)
(***************************************************************************)
FairSpecAuth ==
    /\ SpecAuth
    /\ \A r \in ReqIds :
          /\ WF_vars(AuthStart(r))
          /\ WF_vars(AuthResume(r))
          /\ WF_vars(OptAuthStart(r))
          /\ WF_vars(OptAuthResume(r))

\* next has been called at most once, after at most one verification and one lookup
AttemptedOnce(q) ==
    /\ Len(q.nexts) <= 1
    /\ q.decodes <= 1
    /\ Len(q.verifies) <= 1
    /\ Len(q.lookups) <= 1
    /\ (q.pc # "idle" /\ PastAuth(q)) => Len(q.nexts) = 1

(***************************************************************************)
(* C18: in both variants the authentication of a request is attempted once *)
(* and completes: provided the lookup returns or fails, every request      *)
(* eventually has next called, exactly once (with or without an error),    *)
(* after at most one signature verification and at most one user-store     *)
(* lookup; no failure leads to a second verification or lookup.            *)
(***************************************************************************)
C18_AttemptedOnceAndCompletes ==
    /\ [](\A r \in ReqIds : AttemptedOnce(reqs[r]))
    /\ \A r \in ReqIds : InAuth(reqs[r]) ~> (Len(reqs[r].nexts) = 1)

\* a verified token whose single lookup failed: next was called once, with the error
C18_Witness ==
    \E r \in ReqIds :
        LET q == reqs[r] IN
        /\ Strict(q) /\ q.pc = "error"
        /\ Len(q.nexts) = 1 /\ Len(q.verifies) = 1 /\ q.lookups = <<"u1">>
        /\ q.resp.error = "transport"

(***************************************************************************)
(* SpecAbandon: the subscription routes and the routes of SpecAuth, where  *)
(* a request suspended in the user-store lookup may be abandoned (the      *)
(* client aborts): its middleware never resumes.                           *)
(***************************************************************************)
Abandon(r) ==
    /\ reqs[r].pc \in {"auth_lookup", "opt_lookup"}
    /\ Set(r, [reqs[r] EXCEPT !.pc = "aborted"])
    /\ DbUnchanged

\* the abandoned request object is dropped
Reap(r) ==
    /\ reqs[r].pc = "aborted"
    /\ Set(r, IdleReq)
    /\ DbUnchanged

AbandonHeaders ==
    {<<>>} \cup {<<Bearer, t>> : t \in {JwtSign(Undef, "u1", "k2"), JwtSign("u2", Undef, "k1"),
                                         AlterSignature(JwtSign("u1", Undef, "k1"))}}

ArriveAbandon(r) ==
    /\ Admit(r)
    /\ \E route \in {"me", "optional"}, h \in AbandonHeaders :
          Set(r, [IdleReq EXCEPT
                    !.pc = IF UsesOptionalAuth(route) THEN "optionalAuth" ELSE "auth",
                    !.route = route, !.authorization = h])
    /\ UNCHANGED <<env, profiles, subscriptions, dreams, accounts>>

NextAbandon ==
    \/ Next
    \/ \E r \in ReqIds :
          \/ ArriveAbandon(r)
          \/ OptAuthStart(r)
          \/ OptAuthResume(r)
          \/ PlainHandler(r)
          \/ Abandon(r)
          \/ Reap(r)

SpecAbandon == Init /\ [][NextAbandon]_vars

\* a step taken by a request that is in auth or optionalAuth
AuthFrameStep ==
    \A r \in ReqIds :
        LET p == reqs[r]
            q == reqs'[r]
        IN
        (InAuth(p) /\ q # p) =>
            /\ UNCHANGED <<env, profiles, subscriptions, dreams, accounts>>
            /\ q.route = p.route /\ q.authorization = p.authorization
            /\ q.paramId = p.paramId /\ q.body = p.body
            /\ q.res = p.res /\ q.subscription = p.subscription
            /\ q.writes = {}
            /\ q.pc = "aborted" => ContextEmpty(q) /\ q.nexts = <<>>

(***************************************************************************)
(* C19: the auth core writes no persistent state.  Every step of auth and  *)
(* of optionalAuth, and the abandonment of a request suspended in the      *)
(* lookup, leaves profiles, subscriptions and dreams as they were; all it  *)
(* writes is req.user / req.userId of its own request, and an abandoned    *)
(* request has written nothing.                                            *)
(***************************************************************************)
C19_AuthWritesNoStore ==
    /\ [][AuthFrameStep]_vars
    /\ [](\A r \in ReqIds :
            (reqs[r].pc = "aborted" \/ InAuth(reqs[r])) =>
                ContextEmpty(reqs[r]) /\ reqs[r].writes = {})

\* a request abandoned in its lookup, after an earlier request changed the store
C19_Witness ==
    \E r \in ReqIds :
        LET q == reqs[r] IN
        /\ q.pc = "aborted" /\ q.lookups = <<"u1">>
        /\ subscriptions["s1"] # NoSub /\ subscriptions["s1"].status = "cancelled"
        /\ profiles["u1"] # NoRow

(***************************************************************************)
(* SpecApiConc: two requests in flight at once on the routes that update,  *)
(* cancel or delete an existing subscription or dream, their steps         *)
(* interleaved in every order.                                             *)
(***************************************************************************)
ConcRoutes == {"sub_update", "sub_cancel", "dream_update", "dream_delete"}

ConcInputs(route) ==
    IF route = "sub_update"
    THEN {Input("s1", [NoBody EXCEPT !.user_id = "u2", !.status = "paused", !.price = Undef]),
          Input("s1", [NoBody EXCEPT !.tier = "free", !.price = Undef])}
    ELSE IF route = "dream_update"
    THEN {Input("d1", [NoBody EXCEPT !.title = "t2", !.user_id = "u2"])}
    ELSE IF route = "dream_delete"
    THEN {Input("d1", NoBody)}
    ELSE {Input("s1", NoBody)}

ArriveApiConc(r) ==
    /\ reqs[r].pc = "idle"
    /\ served < MaxServed
    /\ served' = served + 1
    /\ \E route \in ConcRoutes, h \in ApiHeaders :
        \E in \in ConcInputs(route) :
          Set(r, [IdleReq EXCEPT !.pc = "auth", !.route = route, !.authorization = h,
                                 !.paramId = in.paramId, !.body = in.body])
    /\ UNCHANGED <<env, profiles, subscriptions, dreams, accounts>>

NextApiConc ==
    \E r \in ReqIds :
        \/ ArriveApiConc(r)
        \/ AuthStart(r)
        \/ AuthResume(r)
        \/ ErrorHandler(r)
        \/ Finish(r)
        \/ SubUpdateStart(r)
        \/ SubUpdateFetch(r)
        \/ SubUpdateWrite(r)
        \/ SubUpdateProfile(r)
        \/ SubCancelFetch(r)
        \/ SubCancelWrite(r)
        \/ SubCancelProfile(r)
        \/ DreamUpdate(r)
        \/ DreamDelete(r)

SpecApiConc == Init /\ [][NextApiConc]_vars

\* the rows that exist keep their user_id
OwnershipStep ==
    /\ \A s \in SubIds :
          subscriptions[s] # NoSub =>
              /\ subscriptions'[s] # NoSub
              /\ subscriptions'[s].user_id = subscriptions[s].user_id
    /\ \A d \in DreamIds :
          (dreams[d] # NoDream /\ dreams'[d] # NoDream) =>
              dreams'[d].user_id = dreams[d].user_id

(***************************************************************************)
(* C20: ownership fields are immutable.  Through every sequence and        *)
(* interleaving of API operations an existing subscription and an existing dream keep the      *)
(* user_id they were created with (the update handlers strip user_id from  *)
(* the update set), so the owner a handler read for its ownership check is *)
(* still the owner when its write is applied.                              *)
(***************************************************************************)
C20_OwnershipImmutable ==
    /\ [][OwnershipStep]_vars
    /\ [](\A r \in ReqIds :
            LET q == reqs[r] IN
            (q.route \in {"sub_update", "sub_cancel"} /\ q.guard = "passed") =>
                subscriptions[q.paramId].user_id = q.subscription.user_id)
    /\ [](\A d \in DreamIds : dreams[d] # NoDream => dreams[d].user_id = Dream0(d).user_id)

\* updates that carried user_id were applied, one of them between the ownership
\* check and the write of another request, and the owners are who they were
C20_Witness ==
    /\ subscriptions["s1"].status = "paused" /\ subscriptions["s1"].user_id = "u1"
    /\ dreams["d1"].title = "t2" /\ dreams["d1"].user_id = "u1"
    /\ \E r \in ReqIds :
          LET q == reqs[r] IN
          /\ q.pc \in {"su_update", "ca_update"} /\ q.guard = "passed"
          /\ q.subscription.status = "active"

(***************************************************************************)
(* Route handler of PUT /api/profile.  A JSON boolean of the body is       *)
(* written "true" / "false", a JSON number "#7".                           *)
(***************************************************************************)
\* express-validator isString
IsString(v) == v # "#7"

\* validateProfileUpdate: full_name is optional and a string
ValidProfileUpdate(b) == b.full_name = Undef \/ IsString(b.full_name)

\* faulty variant, for comparison: tier and is_premium stay in the update set
StripRestricted_KeepTier(b) ==
    [b EXCEPT !.id = Undef, !.created_at = Undef, !.updated_at = Undef]

\* delete updates.id / tier / is_premium / created_at / updated_at
StripRestricted(b) ==
    [b EXCEPT !.id = Undef, !.tier = Undef, !.is_premium = Undef,
              !.created_at = Undef, !.updated_at = Undef]

\* profiles.update(updates): every key the update set carries is written
ApplyProfileUpdates(row, b) ==
    [row EXCEPT !.id = IF b.id # Undef THEN b.id ELSE @,
                !.tier = IF b.tier # Undef THEN b.tier ELSE @,
                !.is_premium = IF b.is_premium # Undef THEN b.is_premium = "true" ELSE @,
                !.created_at = IF b.created_at # Undef THEN b.created_at ELSE @,
                !.updated_at = IF b.updated_at # Undef THEN b.updated_at ELSE @,
                !.full_name = IF b.full_name # Undef THEN b.full_name ELSE @,
                !.role = IF b.role # Undef THEN b.role ELSE @]

\* lines 52-77: validation, req.userId, the restricted keys are deleted, the update is sent
ProfileUpdateSync(q) ==
    IF ~ValidProfileUpdate(q.body) THEN Respond400(q)
    ELSE IF ~Truthy(q.userId) THEN Fail(q, ApiError(401, "Authentication required"))
    ELSE [q EXCEPT !.body = StripRestricted(q.body), !.pc = "pu_update"]

ProfileUpdateStart(r) ==
    /\ reqs[r].pc = "handler"
    /\ reqs[r].route = "profile_update"
    /\ Set(r, ProfileUpdateSync(reqs[r]))
    /\ DbUnchanged

\* lines 72-89: update(updates).eq('id', userId).select().single() answers
ProfileUpdateWrite(r) ==
    LET q == Issue(reqs[r], Write("profiles", "update", reqs[r].userId)) IN
    /\ reqs[r].pc = "pu_update"
    /\ \/ /\ Set(r, Fail(q, ApiError(500, "store error")))
          /\ UNCHANGED profiles
       \/ /\ q.userId \notin DOMAIN profiles \/ profiles[q.userId] = NoRow
          /\ Set(r, Fail(q, ApiError(404, "Profile not found")))
          /\ UNCHANGED profiles
       \/ /\ q.userId \in DOMAIN profiles /\ profiles[q.userId] # NoRow
          /\ profiles' = [profiles EXCEPT ![q.userId] = ApplyProfileUpdates(@, q.body)]
          /\ Set(r, Respond(q, 200))
    /\ UNCHANGED <<env, subscriptions, dreams, served, accounts>>

(***************************************************************************)
(* SpecProfile: requests of authenticated users to PUT /api/profile, with  *)
(* bodies that carry the restricted keys, the free keys, or both.          *)
(***************************************************************************)
ProfileBodies ==
    {[NoBody EXCEPT !.full_name = n] : n \in {Undef, "n1", "#7"}}
    \cup {[NoBody EXCEPT !.role = "admin"]}
    \cup {[NoBody EXCEPT !.id = i, !.tier = t, !.is_premium = p,
                         !.created_at = c, !.updated_at = c, !.full_name = "n2"] :
             i \in {"u2"}, t \in {Undef, "pro"}, p \in {Undef, "true"},
             c \in {Undef, "t9"}}

ArriveProfile(r) ==
    /\ Admit(r)
    /\ \E h \in ApiHeaders, b \in ProfileBodies :
          Set(r, [IdleReq EXCEPT !.pc = "auth", !.route = "profile_update",
                                 !.authorization = h, !.body = b])
    /\ UNCHANGED <<env, profiles, subscriptions, dreams, accounts>>

NextProfile ==
    \E r \in ReqIds :
        \/ ArriveProfile(r)
        \/ AuthStart(r)
        \/ AuthResume(r)
        \/ ErrorHandler(r)
        \/ Finish(r)
        \/ ProfileUpdateStart(r)
        \/ ProfileUpdateWrite(r)

SpecProfile == Init /\ [][NextProfile]_vars

\* the fields of a profile that PUT /api/profile must not touch
Restricted(row) ==
    <<row.id, row.tier, row.is_premium, row.created_at, row.updated_at>>

\* a step in which the update of PUT /api/profile answers writes at most the
\* row of the requester, and not its restricted fields
ProfileFrameStep ==
    \A r \in ReqIds :
        (reqs[r].route = "profile_update" /\ reqs[r].pc = "pu_update"
            /\ reqs'[r].pc # "pu_update") =>
        /\ \A u \in Users :
              u # reqs[r].userId => profiles'[u] = profiles[u]
        /\ \A u \in Users :
              u = reqs[r].userId => Restricted(profiles'[u]) = Restricted(profiles[u])
        /\ reqs'[r].writes = {Write("profiles", "update", reqs[r].userId)}

(***************************************************************************)
(* C21: PUT /api/profile modifies only the profile row whose id equals the *)
(* authenticated req.userId, and whatever the body carries, the id, tier,  *)
(* is_premium, created_at and updated_at of that row stay as they were;    *)
(* the profiles of the other users are unchanged.                          *)
(***************************************************************************)
C21_ProfileUpdateFrame ==
    /\ [][ProfileFrameStep]_vars
    /\ [](\A u \in Users : Restricted(profiles[u]) = Restricted(Profile(u, "user", "free")))

\* an update whose body carried restricted keys (the bodies with full_name
\* "n2") was applied: the free key is written, the row of the other user is
\* as it was
C21_Witness ==
    \E r \in ReqIds :
        LET q == reqs[r] IN
        /\ q.route = "profile_update" /\ q.pc = "done" /\ q.res.status = 200
        /\ q.userId = "u1"
        /\ profiles["u1"].full_name = "n2"
        /\ profiles["u2"].full_name = "n0"
        /\ q.writes = {Write("profiles", "update", "u1")}

(***************************************************************************)
(* Route handlers of /api/dreams that create and read dreams.  `data` is   *)
(* the set of rows in the body of the response.                            *)
(***************************************************************************)
\* validateDreamCreate (description and date are carried with title)
ValidDreamCreate(b) == Truthy(b.title)

\* POST /api/dreams, lines 131-136: user_id of the body, else req.userId
DreamCreateOwner(q) == IF Truthy(q.body.user_id) THEN q.body.user_id ELSE q.userId

\* POST /api/dreams/save, lines 165-168: userId of the body, else req.userId;
\* a user_id key of the body is overridden by it
DreamSaveOwner(q) == IF Truthy(q.body.userId) THEN q.body.userId ELSE q.userId

\* lines 126-142 and 160-182: validation, the owner is chosen, the insert is sent
DreamCreateSync(q) ==
    IF ~ValidDreamCreate(q.body) THEN Respond400(q)
    ELSE IF q.route = "dream_create"
    THEN [q EXCEPT !.body.user_id = DreamCreateOwner(q), !.pc = "dc_insert"]
    ELSE IF ~Truthy(DreamSaveOwner(q)) THEN Fail(q, ApiError(400, "User ID is required"))
    ELSE [q EXCEPT !.body.user_id = DreamSaveOwner(q), !.body.userId = Undef,
                   !.pc = "dc_insert"]

DreamCreateStart(r) ==
    /\ reqs[r].pc = "handler"
    /\ reqs[r].route \in {"dream_create", "dream_save"}
    /\ Set(r, DreamCreateSync(reqs[r]))
    /\ DbUnchanged

\* insert([...]).select().single() answers: a store error, or the new row under a fresh id
DreamCreateInsert(r) ==
    LET q == Issue(reqs[r], Write("dreams", "insert", reqs[r].body.user_id)) IN
    /\ reqs[r].pc = "dc_insert"
    /\ \/ /\ Set(r, Fail(q, ApiError(500, "store error")))
          /\ UNCHANGED dreams
       \/ \E d \in DreamIds :
            /\ dreams[d] = NoDream
            /\ dreams' = [dreams EXCEPT ![d] =
                   [NoDream EXCEPT !.id = d, !.user_id = q.body.user_id,
                                   !.title = q.body.title]]
            /\ Set(r, [Respond(q, 201) EXCEPT !.data = {dreams'[d]}])
    /\ UNCHANGED <<env, profiles, subscriptions, served, accounts>>

\* GET /api/dreams, lines 52-69: the userId of the query is required, the select is sent
DreamListStart(r) ==
    /\ reqs[r].pc = "handler"
    /\ reqs[r].route = "dream_list"
    /\ Set(r, IF ~Truthy(reqs[r].queryUserId)
              THEN Fail(reqs[r], ApiError(400, "User ID is required"))
              ELSE [reqs[r] EXCEPT !.pc = "dl_select"])
    /\ DbUnchanged

\* select('*').eq('user_id', userId) answers: a store error, or the rows of that user
DreamListSelect(r) ==
    LET q == reqs[r] IN
    /\ q.pc = "dl_select"
    /\ \/ Set(r, Fail(q, ApiError(500, "Error fetching dreams")))
       \/ Set(r, [Respond(q, 200) EXCEPT
                    !.data = {dreams[d] : d \in {x \in DreamIds :
                                 dreams[x] # NoDream /\ dreams[x].user_id = q.queryUserId}}])
    /\ DbUnchanged

\* GET /api/dreams/:id, lines 98-117: select('*').eq('id', id).single()
DreamGet(r) ==
    LET q == reqs[r] IN
    /\ q.pc = "handler"
    /\ q.route = "dream_get"
    /\ \E resp \in SelectSingle(dreams, NoDream, q.paramId) :
          Set(r, IF resp.error # "" THEN Fail(q, ApiError(500, resp.error))
                 ELSE IF resp.data = NoDream THEN Fail(q, ApiError(404, "Dream not found"))
                 ELSE [Respond(q, 200) EXCEPT !.data = {resp.data}])
    /\ DbUnchanged

(***************************************************************************)
(* SpecDreamAccess: requests of authenticated users that create and read   *)
(* dreams; the store starts with or without the dream of u1.               *)
(***************************************************************************)
InitDreamAccess ==
    /\ env = [SUPABASE_JWT_SECRET |-> "k1", JWT_SECRET |-> "k2",
              VIDEO_SERVICE_URL |-> "http://video", NODE_ENV |-> "production"]
    /\ profiles \in [Users -> {Profile(u, ro, "free") : u \in Users, ro \in {"user", "admin"}}]
    /\ \A u \in Users : profiles[u].id = u
    /\ profiles["u1"].role = "user"
    /\ accounts = AccountsOf(profiles)
    /\ subscriptions = [s \in SubIds |-> NoSub]
    /\ dreams \in [DreamIds -> {NoDream} \cup {Dream0(d) : d \in DreamIds}]
    /\ \A d \in DreamIds : dreams[d] # NoDream => dreams[d].id = d
    /\ reqs = [r \in ReqIds |-> IdleReq]
    /\ served = 0

\* path parameter, query parameter and body of each route
DreamAccessInputs(route) ==
    IF route = "dream_create"
    THEN {[paramId |-> Undef, queryUserId |-> Undef,
           body |-> [NoBody EXCEPT !.title = t, !.user_id = u]] :
             t \in {Undef, "t3"}, u \in {Undef} \cup Users}
    ELSE IF route = "dream_save"
    THEN {[paramId |-> Undef, queryUserId |-> Undef,
           body |-> [NoBody EXCEPT !.title = "t3", !.userId = u, !.user_id = o]] :
             u \in {Undef} \cup Users, o \in {Undef, "u1"}}
    ELSE IF route = "dream_list"
    THEN {[paramId |-> Undef, queryUserId |-> u, body |-> NoBody] : u \in {Undef} \cup Users}
    ELSE {[paramId |-> d, queryUserId |-> Undef, body |-> NoBody] : d \in DreamIds}

ArriveDreamAccess(r) ==
    /\ Admit(r)
    /\ \E route \in {"dream_create", "dream_save", "dream_list", "dream_get"},
          h \in ApiHeaders :
        \E in \in DreamAccessInputs(route) :
          Set(r, [IdleReq EXCEPT !.pc = "auth", !.route = route, !.authorization = h,
                                 !.paramId = in.paramId, !.queryUserId = in.queryUserId,
                                 !.body = in.body])
    /\ UNCHANGED <<env, profiles, subscriptions, dreams, accounts>>

NextDreamAccess ==
    \E r \in ReqIds :
        \/ ArriveDreamAccess(r)
        \/ AuthStart(r)
        \/ AuthResume(r)
        \/ ErrorHandler(r)
        \/ Finish(r)
        \/ DreamCreateStart(r)
        \/ DreamCreateInsert(r)
        \/ DreamListStart(r)
        \/ DreamListSelect(r)
        \/ DreamGet(r)

SpecDreamAccess == InitDreamAccess /\ [][NextDreamAccess]_vars

(***************************************************************************)
(* C22: a dream is always created for the authenticated user unless the    *)
(* requester is an administrator: the insert of POST /api/dreams and of    *)
(* POST /api/dreams/save by a user without an administrative role carries  *)
(* that user's id as user_id, whatever user_id / userId the body carries.  *)
(***************************************************************************)
C22_DreamCreatedForRequester ==
    \A r \in ReqIds :
        LET q == reqs[r] IN
        (q.route \in {"dream_create", "dream_save"} /\ ~RoleIncludesAdmin(q.user.role)) =>
            \A w \in q.writes :
                (w.table = "dreams" /\ w.op = "insert") => w.owner = q.userId

(***************************************************************************)
(* C23: dream reads are owner-scoped: the rows that GET /api/dreams and    *)
(* GET /api/dreams/:id return to an authenticated user without an          *)
(* administrative role all have that user's id as user_id, for every       *)
(* userId query parameter and every :id path parameter.                    *)
(***************************************************************************)
C23_DreamReadsOwnerScoped ==
    \A r \in ReqIds :
        LET q == reqs[r] IN
        (q.route \in {"dream_list", "dream_get"} /\ q.pc = "done" /\ q.res.status = 200
            /\ ~RoleIncludesAdmin(q.user.role)) =>
            \A row \in q.data : row.user_id = q.userId

\* the profile of user u shows tier t
Mirrors(u, t) ==
    /\ u \in Users
    /\ profiles[u].tier = t
    /\ profiles[u].is_premium = (t # "free")

(***************************************************************************)
(* C24: a success response of a subscription write implies that the        *)
(* owner's profile mirrors it: when POST /api/subscriptions answers 201,   *)
(* or PUT /api/subscriptions/:id with a tier answers 200, the profile of   *)
(* the subscription's user_id has the written tier and is_premium =        *)
(* (tier # 'free'), also when the profile update returned a store error.   *)
(***************************************************************************)
C24_SuccessImpliesMirrored ==
    \A r \in ReqIds :
        LET q == reqs[r] IN
        /\ (q.route = "sub_create" /\ q.pc = "done" /\ q.res.status = 201) =>
               Mirrors(q.body.user_id, q.body.tier)
        /\ (q.route = "sub_update" /\ q.pc = "done" /\ q.res.status = 200
               /\ Truthy(q.body.tier)) =>
               Mirrors(q.subscription.user_id, q.body.tier)

\* no request is in flight
Quiescent == \A r \in ReqIds : reqs[r].pc \in {"idle", "done"}

\* while the 200 response of a cancel is at hand, the cancelled subscription
\* stays cancelled and, with no request in flight, its owner's profile is free
CancelSticksStep ==
    \A r \in ReqIds :
        LET q == reqs[r] IN
        (q.route = "sub_cancel" /\ q.pc = "done" /\ q.res.status = 200) =>
            /\ subscriptions'[q.paramId].status = "cancelled"
            /\ Quiescent' =>
                  /\ profiles'[q.subscription.user_id].tier = "free"
                  /\ ~profiles'[q.subscription.user_id].is_premium

(***************************************************************************)
(* C26: cancellation sticks: after PUT /api/subscriptions/:id/cancel has   *)
(* succeeded for a user's only subscription, in every later state with no  *)
(* request in flight the subscription has status 'cancelled' and the       *)
(* user's profile has tier 'free' and is_premium false, under any later    *)
(* sequence or interleaving of update and cancel requests on it.           *)
(***************************************************************************)
C26_CancellationSticks == [][CancelSticksStep]_vars

(***************************************************************************)
(* Route handlers of /api/auth: login, register, logout and refresh.       *)
(* `token` is the token in the body of the response (Garbage: none),       *)
(* `account` the data.user.id the identity provider answered.              *)
(***************************************************************************)
\* validateLogin: email isEmail, password notEmpty
ValidLogin(b) == b.email \in Emails /\ Truthy(b.password)

\* validateRegister: email isEmail, password of 6 characters or more, full_name a string
ValidRegister(b) ==
    /\ b.email \in Emails
    /\ b.password = "secret"
    /\ (b.full_name = Undef \/ IsString(b.full_name))

\* faulty variant, for comparison: the user id is signed as the subject of the token
IssueToken_AsSubject(u, e) == JwtSign(u, Undef, e.JWT_SECRET)

\* jwt.sign({ id, email }, jwtSecret, { expiresIn })
IssueToken(u, e) == JwtSign(Undef, u, e.JWT_SECRET)

\* the secret is read and tested, the token is signed and sent with `status`
RespondWithToken(q, u, e, status) ==
    IF ~Truthy(e.JWT_SECRET) THEN Fail(q, ApiError(500, "JWT secret not configured"))
    ELSE [Respond(q, status) EXCEPT !.token = IssueToken(u, e)]

\* POST /login, lines 295-306: validation, signInWithPassword is sent
LoginStart(r) ==
    /\ reqs[r].pc = "handler"
    /\ reqs[r].route = "login"
    /\ Set(r, IF ~ValidLogin(reqs[r].body) THEN Respond400(reqs[r])
              ELSE [reqs[r] EXCEPT !.pc = "lg_signin"])
    /\ DbUnchanged

\* lines 303-321: the identity provider answers; the profile select is sent
LoginSignIn(r) ==
    LET q == reqs[r] IN
    /\ q.pc = "lg_signin"
    /\ \/ Set(r, Fail(q, ApiError(401, "Invalid login credentials")))
       \/ /\ accounts[q.body.email] # Undef
          /\ q.body.password = "secret"
          /\ Set(r, [q EXCEPT !.account = accounts[q.body.email], !.pc = "lg_profile"])
    /\ DbUnchanged

\* lines 317-346: the profile select answers; the token is signed
LoginProfile(r) ==
    LET q == reqs[r] IN
    /\ q.pc = "lg_profile"
    /\ \E resp \in SelectSingle(profiles, NoRow, q.account) :
          Set(r, IF resp.error # "" THEN Fail(q, ApiError(500, resp.error))
                 ELSE RespondWithToken(q, q.account, env, 200))
    /\ DbUnchanged

\* POST /register, lines 356-368: validation, the select on users is sent
RegisterStart(r) ==
    /\ reqs[r].pc = "handler"
    /\ reqs[r].route = "register"
    /\ Set(r, IF ~ValidRegister(reqs[r].body) THEN Respond400(reqs[r])
              ELSE [reqs[r] EXCEPT !.pc = "rg_exists"])
    /\ DbUnchanged

\* lines 364-384: the select on users answers (its error is not looked at);
\* a row can be there only for a registered email; signUp is sent
RegisterExists(r) ==
    LET q == reqs[r] IN
    /\ q.pc = "rg_exists"
    /\ \/ /\ accounts[q.body.email] # Undef
          /\ Set(r, Fail(q, ApiError(409, "User already exists")))
       \/ Set(r, [q EXCEPT !.pc = "rg_signup"])
    /\ DbUnchanged

\* lines 375-403: signUp answers: an error or no user (400), or the new
\* account under a fresh id; the profile insert is sent
RegisterSignUp(r) ==
    LET q == reqs[r] IN
    /\ q.pc = "rg_signup"
    /\ \/ /\ Set(r, Fail(q, ApiError(400, "Registration failed")))
          /\ UNCHANGED accounts
       \/ /\ accounts[q.body.email] = Undef
          /\ \E a \in Users :
               /\ \A e \in Emails : accounts[e] # a
               /\ profiles[a] = NoRow
               /\ accounts' = [accounts EXCEPT ![q.body.email] = a]
               /\ Set(r, [q EXCEPT !.account = a, !.pc = "rg_profile"])
    /\ UNCHANGED <<env, profiles, subscriptions, dreams, served>>

\* lines 393-431: the profile insert answers: a store error (500), or the
\* row is there; the token is signed
RegisterProfile(r) ==
    LET q == Issue(reqs[r], Write("profiles", "insert", reqs[r].account)) IN
    /\ reqs[r].pc = "rg_profile"
    /\ \/ /\ Set(r, Fail(q, ApiError(500, "store error")))
          /\ UNCHANGED profiles
       \/ /\ profiles[q.account] = NoRow
          /\ profiles' = [profiles EXCEPT ![q.account] =
                 [Profile(q.account, Undef, "free") EXCEPT
                     !.full_name = q.body.full_name, !.is_premium = FALSE]]
          /\ Set(r, RespondWithToken(q, q.account, env, 201))
    /\ UNCHANGED <<env, subscriptions, dreams, served, accounts>>

\* faulty variant, for comparison: logout rotates the signing secret
Logout_Rotate(r) ==
    /\ reqs[r].pc = "handler"
    /\ reqs[r].route = "logout"
    /\ Set(r, Respond(reqs[r], 200))
    /\ env' = [env EXCEPT !.JWT_SECRET = "k1"]
    /\ UNCHANGED <<profiles, subscriptions, dreams, served, accounts>>

\* POST /logout: 200 { success, message }
Logout(r) ==
    /\ reqs[r].pc = "handler"
    /\ reqs[r].route = "logout"
    /\ Set(r, Respond(reqs[r], 200))
    /\ DbUnchanged

\* POST /refresh, behind auth: a token for req.user.id is signed
Refresh(r) ==
    /\ reqs[r].pc = "handler"
    /\ reqs[r].route = "refresh"
    /\ Set(r, RespondWithToken(reqs[r], reqs[r].user.id, env, 200))
    /\ DbUnchanged

(***************************************************************************)
(* SpecSession: two requests in flight at once on the routes of /api/auth. *)
(* A client presents a token it holds from before, or the token of a       *)
(* response that has just been sent.  `seq` numbers the requests in the    *)
(* order of their arrival.                                                 *)
(***************************************************************************)
InitSession ==
    /\ env \in [SUPABASE_JWT_SECRET : {"k1"}, JWT_SECRET : {"", "k2"},
                VIDEO_SERVICE_URL : {"http://video"}, NODE_ENV : {"production"}]
    /\ profiles \in [Users -> {NoRow} \cup {Profile(u, "user", "free") : u \in Users}]
    /\ profiles["u1"] = Profile("u1", "user", "free")
    /\ profiles["u2"] \in {NoRow, Profile("u2", "user", "free")}
    /\ accounts = AccountsOf(profiles)
    /\ subscriptions = [s \in SubIds |-> NoSub]
    /\ dreams = [d \in DreamIds |-> NoDream]
    /\ reqs = [r \in ReqIds |-> IdleReq]
    /\ served = 0

\* tokens the clients hold from before: of an earlier login, of the platform,
\* and one of an earlier login that has expired
HeldTokens ==
    {JwtSign(Undef, "u1", "k2"), JwtSign("u1", Undef, "k1"),
     [JwtSign(Undef, "u1", "k2") EXCEPT !.expired = TRUE]}

\* the tokens a client can present in request r
SessionTokens(r) ==
    HeldTokens \cup {reqs[x].token : x \in {y \in ReqIds \ {r} :
                        reqs[y].pc = "done" /\ reqs[y].token # Garbage}}

SessionBodies(route) ==
    IF route = "login"
    THEN {[NoBody EXCEPT !.email = e, !.password = "secret"] : e \in Emails \cup {Undef}}
    ELSE IF route = "register"
    THEN {[NoBody EXCEPT !.email = "e2", !.password = p, !.full_name = "n1"] :
             p \in {"secret", "x"}}
    ELSE {NoBody}

ArriveSession(r) ==
    /\ reqs[r].pc = "idle"
    /\ served < MaxServed
    /\ served' = served + 1
    /\ \/ \E route \in {"login", "register"} :
            \E b \in SessionBodies(route) :
               Set(r, [IdleReq EXCEPT !.pc = "handler", !.route = route, !.body = b,
                                      !.seq = served'])
       \/ \E route \in {"logout", "refresh", "me"}, t \in SessionTokens(r) :
               Set(r, [IdleReq EXCEPT !.pc = IF route = "logout" THEN "handler" ELSE "auth",
                                      !.route = route, !.authorization = <<Bearer, t>>,
                                      !.seq = served'])
    /\ UNCHANGED <<env, profiles, subscriptions, dreams, accounts>>

NextSession ==
    \E r \in ReqIds :
        \/ ArriveSession(r)
        \/ AuthStart(r)
        \/ AuthResume(r)
        \/ ErrorHandler(r)
        \/ Finish(r)
        \/ PlainHandler(r)
        \/ LoginStart(r)
        \/ LoginSignIn(r)
        \/ LoginProfile(r)
        \/ RegisterStart(r)
        \/ RegisterExists(r)
        \/ RegisterSignUp(r)
        \/ RegisterProfile(r)
        \/ Logout(r)
        \/ Refresh(r)

SpecSession == InitSession /\ [][NextSession]_vars

\* the user a route signs its token for: data.user.id, or req.user.id in /refresh
IssuedFor(q) == IF q.route = "refresh" THEN q.userId ELSE q.account

\* request q carries a token in its response
ReturnsToken(q) == q.token # Garbage

\* q presents to strict auth a token of user u as the routes sign it
PresentsIssued(q, u) ==
    /\ q.route \in {"me", "refresh"}
    /\ q.pc # "auth"
    /\ q.authorization = <<Bearer, JwtSign(Undef, u, env.JWT_SECRET)>>
    /\ Truthy(env.JWT_SECRET)

(***************************************************************************)
(* C27: issued tokens round-trip.  Every token returned by POST /login,    *)
(* POST /register or POST /refresh for user u carries an id claim equal to *)
(* u and no sub claim, is unexpired and signed with the local secret; such *)
(* a token, presented unmodified to strict auth while the local secret is  *)
(* unchanged, is verified with the local secret only, and when the lookup  *)
(* answers with u's profile the request authenticates with req.userId = u. *)
(***************************************************************************)
C27_IssuedTokensRoundTrip ==
    /\ \A r \in ReqIds :
          LET q == reqs[r] IN
          ReturnsToken(q) =>
              /\ q.route \in {"login", "register", "refresh"}
              /\ q.pc = "done" /\ q.res.status \in {200, 201}
              /\ IssuedFor(q) \in Users
              /\ q.token.kind = "object"
              /\ q.token.id = IssuedFor(q)
              /\ q.token.sub = Undef
              /\ ~q.token.expired
              /\ q.token.key = env.JWT_SECRET /\ Truthy(env.JWT_SECRET)
    /\ \A r \in ReqIds, u \in Users :
          LET q == reqs[r] IN
          PresentsIssued(q, u) =>
              /\ q.verifies = <<VerifyCall("JWT_SECRET", TRUE)>>
              /\ q.lookups = <<u>>
              /\ (q.pc # "auth_lookup" /\ q.resp = StoreResp(profiles[u], "")
                     /\ profiles[u] # NoRow) =>
                     /\ Proceeded(q)
                     /\ q.userId = u /\ q.user = profiles[u]

\* the token of a 201 response of /register is presented to GET /me by a later
\* request while the response is at hand, and authenticates as the new user
C27_Witness ==
    \E x \in ReqIds, r \in ReqIds :
        /\ reqs[x].route = "register" /\ reqs[x].pc = "done" /\ reqs[x].res.status = 201
        /\ reqs[r].route = "me" /\ reqs[r].seq > reqs[x].seq
        /\ reqs[r].authorization = <<Bearer, reqs[x].token>>
        /\ reqs[r].pc = "done" /\ reqs[r].res.status = 200
        /\ reqs[r].userId = reqs[x].account
        /\ reqs[x].account = "u2"

\* strict auth accepts token t in the present state: the verifier passes and
\* the lookup of its subject, answered by the store as it is, lets the request on
Accepts(t) ==
    LET a == AuthSync([IdleReq EXCEPT !.pc = "auth", !.route = "me",
                                      !.authorization = <<Bearer, t>>], env)
    IN /\ a.pc = "auth_lookup"
       /\ a.key \in Users
       /\ profiles[a.key] # NoRow
       /\ Proceeded(AuthAfterLookup(a, StoreResp(profiles[a.key], "")))

\* the tokens in the hands of the clients
TokensInPlay == HeldTokens \cup {JwtSign(Undef, u, env.JWT_SECRET) : u \in Users}

\* a step in which POST /logout answers changes nothing but its own request,
\* and every token accepted before it is accepted after it
LogoutStep ==
    \A r \in ReqIds :
        (reqs[r].route = "logout" /\ reqs[r].pc = "handler" /\ reqs'[r].pc = "done") =>
            /\ UNCHANGED <<env, profiles, subscriptions, dreams, accounts>>
            /\ \A x \in ReqIds \ {r} : reqs'[x] = reqs[x]
            /\ reqs'[r].res.status = 200
            /\ \A t \in TokensInPlay : Accepts(t) => Accepts(t)'

(***************************************************************************)
(* C28: logout does not revoke anything.  POST /api/auth/logout changes no *)
(* server state, so a token that passes strict authentication before the   *)
(* logout passes it after it: a later request that presents the token the  *)
(* client logged out with, unexpired, under the same secret and with the   *)
(* user record found, is authenticated.                                    *)
(***************************************************************************)
C28_LogoutRevokesNothing ==
    /\ [][LogoutStep]_vars
    /\ [](\A x \in ReqIds, r \in ReqIds :
            LET o == reqs[x]
                q == reqs[r]
            IN (/\ o.route = "logout" /\ o.pc = "done"
                /\ q.route \in {"me", "refresh"} /\ q.seq > o.seq
                /\ q.authorization = o.authorization
                /\ SignatureVerified(TokenOf(o), env)
                /\ q.pc \notin {"auth", "auth_lookup"}
                /\ q.resp.error = "" /\ q.resp.data # NoRow) =>
               /\ Proceeded(q)
               /\ q.userId = TokenSubject(TokenOf(o)))

\* a client logged out with its token and a later request presented the same
\* token to GET /me: it was authenticated and answered 200
C28_Witness ==
    \E x \in ReqIds, r \in ReqIds :
        /\ reqs[x].route = "logout" /\ reqs[x].pc = "done" /\ reqs[x].res.status = 200
        /\ reqs[r].route = "me" /\ reqs[r].seq > reqs[x].seq
        /\ reqs[r].authorization = reqs[x].authorization
        /\ reqs[r].pc = "done" /\ reqs[r].res.status = 200
        /\ reqs[r].userId = "u1"

\* no request to /register is in flight
NoRegisterInFlight ==
    \A r \in ReqIds : reqs[r].route = "register" => reqs[r].pc \in {"done"}

(***************************************************************************)
(* C29: registration is all-or-nothing.  Whenever POST /api/auth/register  *)
(* answers with an error status (400, 409 or 500) the request has created  *)
(* neither an identity-provider account nor a profile row; once the        *)
(* request is answered, an account exists iff a profile row with the same  *)
(* id exists.                                                              *)
(***************************************************************************)
C29_RegistrationAllOrNothing ==
    /\ \A r \in ReqIds :
          LET q == reqs[r] IN
          (q.route = "register" /\ q.pc = "done" /\ q.res.status \in {400, 409, 500}) =>
              /\ q.account = Undef
              /\ q.writes = {}
    /\ NoRegisterInFlight =>
          /\ \A e \in Emails :
                accounts[e] # Undef => profiles[accounts[e]] # NoRow
          /\ \A u \in Users :
                profiles[u] # NoRow => \E e \in Emails : accounts[e] = u

(***************************************************************************)
(* SpecTier: the operations that write profiles, one request at a time:    *)
(* register, profile update, and subscription create, update and cancel.   *)
(***************************************************************************)
InitTier ==
    /\ env = [SUPABASE_JWT_SECRET |-> "k1", JWT_SECRET |-> "k2",
              VIDEO_SERVICE_URL |-> "http://video", NODE_ENV |-> "production"]
    /\ profiles \in [Users -> {NoRow} \cup {Profile(u, ro, t) :
                        u \in Users, ro \in {"user", "admin"}, t \in {"free", "pro"}}]
    /\ profiles["u1"] = Profile("u1", "user", "free")
    /\ profiles["u2"] \in {NoRow, Profile("u2", "admin", "pro")}
    /\ accounts = AccountsOf(profiles)
    /\ subscriptions \in [SubIds -> {NoSub, [id |-> "s1", user_id |-> "u1",
                                             tier |-> "pro", status |-> "active"]}]
    /\ subscriptions["s2"] = NoSub
    /\ dreams = [d \in DreamIds |-> NoDream]
    /\ reqs = [r \in ReqIds |-> IdleReq]
    /\ served = 0

\* the bodies of PUT /api/profile ask for tier free, with or without is_premium
TierInputs(route) ==
    IF route = "sub_create"
    THEN {Input(Undef, [NoBody EXCEPT !.user_id = u, !.tier = t, !.status = "active"]) :
             u \in Users, t \in {"free", "pro"}}
    ELSE IF route = "sub_update"
    THEN {Input("s1", [NoBody EXCEPT !.tier = t, !.price = Undef]) :
             t \in {Undef, "free", "pro"}}
    ELSE IF route = "sub_cancel"
    THEN {Input("s1", NoBody)}
    ELSE {Input(Undef, [NoBody EXCEPT !.full_name = "n2", !.tier = "free",
                                      !.is_premium = p]) : p \in {Undef, "true", "false"}}

ArriveTier(r) ==
    /\ Admit(r)
    /\ \/ \E route \in SubRoutes \cup {"profile_update"}, h \in ApiHeaders :
            \E in \in TierInputs(route) :
               Set(r, [IdleReq EXCEPT !.pc = "auth", !.route = route, !.authorization = h,
                                      !.paramId = in.paramId, !.body = in.body])
       \/ Set(r, [IdleReq EXCEPT !.pc = "handler", !.route = "register",
                                 !.body = [NoBody EXCEPT !.email = "e2", !.password = "secret",
                                                         !.full_name = "n1"]])
    /\ UNCHANGED <<env, profiles, subscriptions, dreams, accounts>>

NextTier ==
    \E r \in ReqIds :
        \/ ArriveTier(r)
        \/ AuthStart(r)
        \/ AuthResume(r)
        \/ ErrorHandler(r)
        \/ Finish(r)
        \/ RegisterStart(r)
        \/ RegisterExists(r)
        \/ RegisterSignUp(r)
        \/ RegisterProfile(r)
        \/ ProfileUpdateStart(r)
        \/ ProfileUpdateWrite(r)
        \/ SubCreateStart(r)
        \/ SubCreateInsert(r)
        \/ SubCreateProfile(r)
        \/ SubUpdateStart(r)
        \/ SubUpdateFetch(r)
        \/ SubUpdateWrite(r)
        \/ SubUpdateProfile(r)
        \/ SubCancelFetch(r)
        \/ SubCancelWrite(r)
        \/ SubCancelProfile(r)

SpecTier == InitTier /\ [][NextTier]_vars

(***************************************************************************)
(* C25: profile tier consistency.  After any sequence of register, profile *)
(* update, and subscription create / update / cancel operations, every     *)
(* profile satisfies is_premium = (tier # 'free').                         *)
(***************************************************************************)
C25_TierConsistency ==
    \A u \in Users :
        profiles[u] # NoRow => profiles[u].is_premium = (profiles[u].tier # "free")

\* u2 has registered, u1 has been upgraded by a subscription write and has
\* then sent a profile update whose body asked for tier free
C25_Witness ==
    /\ profiles["u2"] # NoRow /\ profiles["u2"].role = Undef
    /\ profiles["u2"].tier = "free" /\ ~profiles["u2"].is_premium
    /\ profiles["u1"].tier = "pro" /\ profiles["u1"].is_premium
    /\ profiles["u1"].full_name = "n2"
    /\ \E r \in ReqIds :
          /\ reqs[r].route = "profile_update" /\ reqs[r].pc = "done"
          /\ reqs[r].res.status = 200 /\ reqs[r].userId = "u1"

====
